---- MODULE Spec2Model ----
(***************************************************************************)
(* Haberlea: the job/track download queue (download_queue.py) and the      *)
(* two-phase orchestration of the Downloader (music_downloader.py):        *)
(* population (queue_track, queue_album) followed by process_queue, which  *)
(* runs one _download_track_task pipeline per registered Track Task under  *)
(* the queue's semaphore inside an anyio task group.                       *)
(*                                                                         *)
(* All coroutines run on one event loop, so the code between two           *)
(* suspension points is one atomic step.  The steps of a pipeline are cut  *)
(* where it waits for something outside the program: the semaphore, the    *)
(* backend calls of _download_track and the back-off sleep of its retry.   *)
(* A task-group cancellation reaches a pipeline at such a point, or at the  *)
(* next acquisition of the job lock, as a BaseException, which             *)
(* `except Exception` does not catch.  The job lock is never held across a *)
(* suspension, so each queue method is atomic.                             *)
(***************************************************************************)
EXTENDS Integers, Sequences, FiniteSets, TLC

\* ---------------------------------------------------------------- bounds
MaxTrack == 2        \* track ids the backend can return: 1..MaxTrack
MaxJobs == 2         \* requests populated before process_queue
MaxAlbums == 2       \* albums in an artist's discography
MaxAccounts == 2     \* accounts configured for a module
MaxExtensions == 2   \* extensions registered in the session
MaxChunks == 2       \* multiples of the byte throttle a progress value reaches

\* ------------------------------------------------------------ input sets
ConcurrentChoices == {1, 2}   \* values of settings.advanced.concurrent_downloads

\* ------------------------------------------------------ program constants
MaxAttempts == 3     \* stop_after_attempt(3) on _download_track

TrackIds == 1..MaxTrack
JobIds == 1..MaxJobs
NoJob == 0

\* Account indices load_module can be given (an index past the configured
\* accounts loads the module with its default settings).
Accounts == 0..MaxAccounts
NoAccount == -1
\* Where the backend raises RegionRestrictedError for an account: at the
\* item's own info call (0), at the info call of the k-th album of an
\* artist (k), or nowhere.
Accepts == -1
RejectPoints == {Accepts} \cup (0..MaxAlbums)
NoMedia == [kind |-> "none", albums |-> <<>>]

\* How the hooks of an extension end: they return, or raise an Exception.
HookReturns == "returns"
HookRaises == "raises"
HookBehaviours == {HookReturns, HookRaises}
NoResult == [completed |-> <<>>, failed |-> <<>>]

\* Artist names as the backend and the requests spell them; NoArtist is
\* the empty main_artist of a TrackTask.
ArtistNames == {"ABBA", "abba", "Queen"}
NoArtist == ""

\* JobStatus
JobPending == "pending"
JobDownloading == "downloading"
JobCompleted == "completed"
JobPartial == "partial"
JobFailed == "failed"
TerminalJobStatus == {JobCompleted, JobPartial, JobFailed}

\* ProgressStatus ("none": no progress task exists for the id)
NoProgress == "none"
PENDING == "PENDING"
DOWNLOADING == "DOWNLOADING"
COMPLETED == "COMPLETED"
FAILED == "FAILED"
SKIPPED == "SKIPPED"
TerminalProgress == {COMPLETED, FAILED, SKIPPED}

VARIABLES
    abort,         \* settings: advanced.abort_download_when_single_failed
    concurrent,    \* settings: advanced.concurrent_downloads
    jobs,          \* DownloadQueue._jobs: sequence of DownloadJob, job id = index
    track_tasks,   \* DownloadQueue._track_tasks: track id -> job_id of its TrackTask
    progress,      \* progress._tasks: track id -> status of its ProgressEvent
    semaphore,     \* DownloadQueue.semaphore: free permits
    phase,         \* "populate", "process", "returned", "raised"
    pc,            \* position of the pipeline spawned for each track id
    attempt,       \* tenacity attempt number of _download_track, 0 outside it
    tg_cancelled,  \* the task group's cancel scope has been cancelled
    finish_count,  \* history: per job, runs of the `if job.is_finished` branch
    cb_early,      \* history: a callback ran while a track of the job was not terminal
    exc_raised,    \* history: tracks one of whose pipeline steps raised an exception
    exc_escaped,   \* history: tracks whose _download_track let an exception escape
    media,         \* the MediaIdentification given to _queue_media_item
    account_count, \* session.get_module_account_count(module_name)
    rejects,       \* backend: where each account meets RegionRestrictedError
    tried,         \* history: account_index of each _queue_media_item call
    task_module,   \* TrackTask.module: account of the module instance
    task_account_index,  \* TrackTask.account_index
    extensions,    \* session.extensions: how the hooks of each one end
    notified,      \* history: extensions whose on_track_complete was called
    ext_done,      \* per job: _run_extensions tasks that have finished
    ext_invoked,   \* history: extensions whose on_job_complete was called
    finalized,     \* history: extensions whose on_all_complete was called
    core,          \* position of haberlea_core_download
    result,        \* what haberlea_core_download returned
    dry_run,       \* settings: advanced.dry_run
    ignore_existing_files,  \* settings: advanced.ignore_existing_files
    converts,      \* settings: a conversion is configured for the codec
    files,         \* per track: the locations where a file of it exists
    descriptor_requested,  \* history: tracks get_track_download was called for
    bytes_fetched,         \* history: tracks download_file wrote bytes of
    skipped_existing,      \* history: tracks skipped by the existence check
    assets_fetched,        \* history: jobs whose cover/booklet assets were fetched
    cover_fetched,         \* history: tracks _download_cover was called for
    transcoded,            \* history: tracks _convert_if_needed converted
    artist_jobs,           \* jobs with media_type MediaType.ARTIST
    main_artist,           \* TrackTask.main_artist
    track_artists,         \* backend: TrackInfo.artists of each track
    ignore_different_artists,  \* settings: artist_downloading.ignore_different_artists
    filter_skipped,        \* history: tracks skipped by the artist filter
    media_to_download,     \* haberlea_core_download: the request map, in order
    third_party_modules,   \* haberlea_core_download: the auxiliary selection
    media_infos,           \* backend: the get_*_info result of each queue_* call
    returned,              \* history: the job id each queue_* call returned
    call,                  \* history: the latest call of a DownloadQueue method
    cover_cache,           \* Downloader._cover_cache: the album ids with a cached cover
    cover_pc,              \* position of each pipeline inside _download_cover
    cover_downloaded,      \* history: per album id, the tracks whose pipeline fetched its cover
    last_exception,        \* history: what the latest attempt of _download_track raised
    caught,                \* history: the exception caught by _download_track_task
    job_lock,              \* DownloadQueue._job_lock: the pipeline holding it, or NoHolder
    lock_pc,               \* position of each pipeline inside its final queue calls
    tasks,                 \* progress._tasks: the event of one task id
    last_reported,         \* progress._last_reported of that task id
    update_call,           \* history: the latest call of the progress module
    module_accounts,       \* number of accounts configured for the module
    login_fails,           \* the account indexes whose login raises
    loaded_modules,        \* Haberlea.loaded_modules: the account indexes with an instance
    authenticated,         \* history: the account indexes whose login has returned
    load_call,             \* history: the latest load_module / load_module_with_fallback
    tracked_paths,         \* TempFileManager._tracked_paths, each named by the track that made it
    temp_files,            \* the temporary files on disk
    closed_modules,        \* the account indexes whose module instance has been closed
    cleaned                \* haberlea_core_download has left its finally clause

vars == <<abort, concurrent, jobs, track_tasks, progress, semaphore, phase, pc,
          attempt, tg_cancelled, finish_count, cb_early, exc_raised,
          exc_escaped, media, account_count, rejects, tried, task_module,
          task_account_index, extensions, notified, ext_done, ext_invoked,
          finalized, core, result, dry_run, ignore_existing_files, converts,
          files, descriptor_requested, bytes_fetched, skipped_existing,
          assets_fetched, cover_fetched, transcoded, artist_jobs, main_artist,
          track_artists, ignore_different_artists, filter_skipped,
          media_to_download, third_party_modules, media_infos, returned,
          call, cover_cache, cover_pc, cover_downloaded,
          last_exception, caught, job_lock, lock_pc,
          tasks, last_reported, update_call, module_accounts, login_fails,
          loaded_modules, authenticated, load_call, tracked_paths, temp_files,
          closed_modules, cleaned>>

region == <<media, account_count, rejects, tried, task_module,
            task_account_index>>

extension_run == <<extensions, ext_done, ext_invoked, finalized, core, result>>
hooks == <<extension_run, notified>>

files_state == <<dry_run, ignore_existing_files, converts, files,
                 descriptor_requested, bytes_fetched, skipped_existing,
                 assets_fetched, cover_fetched, transcoded>>

artist_filter == <<artist_jobs, main_artist, track_artists,
                   ignore_different_artists, filter_skipped>>

request == <<media_to_download, third_party_modules, media_infos, returned,
            call>>

cover == <<cover_cache, cover_pc, cover_downloaded>>

retry == <<last_exception, caught>>

lock == <<job_lock, lock_pc>>

sink == <<tasks, last_reported, update_call>>

temp == <<tracked_paths, temp_files, closed_modules, cleaned>>

loader == <<module_accounts, login_fails, loaded_modules, authenticated,
           load_call>>

config == <<abort, concurrent>>
history == <<exc_raised, exc_escaped>>

\* ------------------------------------------------------------ DownloadJob
NewJob == [track_ids |-> <<>>, completed_tracks |-> {}, failed_tracks |-> {},
           skipped_tracks |-> {}, status |-> JobPending]

TotalTracks(job) == Len(job.track_ids)

FinishedTracks(job) ==
    Cardinality(job.completed_tracks) + Cardinality(job.failed_tracks)
        + Cardinality(job.skipped_tracks)

IsFinishedAlways(job) == TRUE

\* is_finished without the `total > 0` conjunct.
IsFinishedWithoutTracks(job) == FinishedTracks(job) >= TotalTracks(job)

IsFinished(job) == FinishedTracks(job) >= TotalTracks(job) /\ TotalTracks(job) > 0

TrackIdSet(job) == {job.track_ids[i] : i \in 1..Len(job.track_ids)}

Registered == {t \in TrackIds : track_tasks[t] # NoJob}

\* ---------------------------------------------------------- DownloadQueue
\* JobProgress(completed=0, failed=0, skipped=0, total=0).
ZeroProgress == [completed |-> 0, failed |-> 0, skipped |-> 0, total |-> 0]

\* No method of the queue has been called from outside the Downloader.
\* Of a call: the method, whether the id it was given is registered,
\* whether it raised, and the JobProgress it returned.
NoCall == [op |-> "none", known |-> FALSE, raised |-> FALSE,
           result |-> ZeroProgress]

\* The queue, the progress registry and the callback's history as one
\* value, so that the queue's methods are operators on it.
Queue == [jobs |-> jobs, track_tasks |-> track_tasks, progress |-> progress,
          finish_count |-> finish_count, cb_early |-> cb_early]

\* create_job: a fresh id (uuid4), the job registered under it.
CreateJob(q) == [q EXCEPT !.jobs = Append(@, NewJob)]

\* add_track registering the task and its progress task before it looks
\* the job up.
AddTrackUnchecked(q, job_id, t) ==
    [q EXCEPT !.jobs = [j \in DOMAIN q.jobs |->
                           IF j = job_id
                           THEN [q.jobs[j] EXCEPT !.track_ids = Append(@, t)]
                           ELSE q.jobs[j]],
              !.track_tasks[t] = job_id,
              !.progress[t] = PENDING]

\* add_track moving the track id: taken off the track_ids of every other job.
AddTrackMovingTrack(q, job_id, t) ==
    IF job_id \notin DOMAIN q.jobs THEN q
    ELSE [q EXCEPT !.jobs = [j \in DOMAIN q.jobs |->
                                IF j = job_id
                                THEN [q.jobs[j] EXCEPT !.track_ids = Append(@, t)]
                                ELSE [q.jobs[j] EXCEPT !.track_ids =
                                         SelectSeq(@, LAMBDA u : u # t)]],
                   !.track_tasks[t] = job_id,
                   !.progress[t] = PENDING]

\* add_track(job_id, task) for a task with task.job_id = job_id, then
\* progress.create_task(task.track_id); KeyError, raised before anything
\* is changed, leaves the queue as it is.
AddTrack(q, job_id, t) ==
    IF job_id \notin DOMAIN q.jobs THEN q
    ELSE [q EXCEPT !.jobs[job_id].track_ids = Append(@, t),
                   !.track_tasks[t] = job_id,
                   !.progress[t] = PENDING]

RECURSIVE AddTracks(_, _, _)
AddTracks(q, job_id, tracks) ==
    IF tracks = <<>> THEN q
    ELSE AddTracks(AddTrack(q, job_id, Head(tracks)), job_id, Tail(tracks))

\* mark_track_complete, lines 382-387: the set matching the status.
DoubleCountedSets(job, t, st) ==
    [job EXCEPT !.completed_tracks = @ \cup {t},
                !.failed_tracks = IF st = FAILED THEN @ \cup {t} ELSE @,
                !.skipped_tracks = IF st = SKIPPED THEN @ \cup {t} ELSE @]

SetsAfterMark(job, t, st) ==
    [job EXCEPT !.completed_tracks = IF st = COMPLETED THEN @ \cup {t} ELSE @,
                !.failed_tracks = IF st = FAILED THEN @ \cup {t} ELSE @,
                !.skipped_tracks = IF st = SKIPPED THEN @ \cup {t} ELSE @]

\* mark_track_complete, lines 391-394.
FinishedStatusFailedWhenNoneSucceeds(job) ==
    IF job.failed_tracks = {} THEN JobCompleted
    ELSE IF job.completed_tracks = {} /\ job.skipped_tracks = {} THEN JobFailed
    ELSE JobPartial

FinishedStatusIgnoringFailures(job) == JobCompleted

FinishedStatus(job) ==
    IF job.failed_tracks # {} THEN JobPartial ELSE JobCompleted

\* mark_track_complete, lines 380-394: the job after the locked region.
JobAfterMark(job, t, st) ==
    LET marked == SetsAfterMark(job, t, st)
    IN  IF IsFinished(marked)
        THEN [marked EXCEPT !.status = FinishedStatus(marked)]
        ELSE marked

AllTerminal(job) ==
    TrackIdSet(job) \subseteq
        (job.completed_tracks \cup job.failed_tracks \cup job.skipped_tracks)

\* mark_track_complete(track_id, status) with the on_job_complete callback
\* of haberlea_core_download, which spawns the extension task and returns.
MarkTrackComplete(q, t, st) ==
    IF q.track_tasks[t] = NoJob \/ q.track_tasks[t] \notin DOMAIN q.jobs
    THEN q
    ELSE LET j == q.track_tasks[t]
             job == JobAfterMark(q.jobs[j], t, st)
         IN  [q EXCEPT !.jobs[j] = job,
                       !.finish_count[j] = IF IsFinished(job) THEN @ + 1 ELSE @,
                       !.cb_early = @ \/ (IsFinished(job) /\ ~AllTerminal(job))]

\* update_progress, lines 454-459: the job whose status flips.
FlipsToDownloading(q, t, st) ==
    /\ q.track_tasks[t] # NoJob
    /\ st = DOWNLOADING
    /\ q.track_tasks[t] \in DOMAIN q.jobs
    /\ q.jobs[q.track_tasks[t]].status = JobPending

\* update_progress(track_id, status=...), lines 442-459: the event's status
\* and the PENDING -> DOWNLOADING flip of the owning job.
UpdateProgress(q, t, st) ==
    LET reported == [q EXCEPT !.progress[t] = st]
    IN  IF FlipsToDownloading(q, t, st)
        THEN [reported EXCEPT !.jobs[q.track_tasks[t]].status = JobDownloading]
        ELSE reported

\* The queue's variables after an operation.
Store(q) ==
    /\ jobs' = q.jobs
    /\ track_tasks' = q.track_tasks
    /\ progress' = q.progress
    /\ finish_count' = q.finish_count
    /\ cb_early' = q.cb_early

queue == <<jobs, track_tasks, progress, finish_count, cb_early>>

\* ------------------------------------------------- Downloader: population
\* The track lists get_album_info returns: album k holds tracks 1..k.
AlbumTrackLists == {[i \in 1..k |-> i] : k \in 0..MaxTrack}

\* Track ids are opaque strings: requests name them in order of first
\* appearance, so the ids seen after each request are 1..m for some m.
SeenTracks == UNION {TrackIdSet(jobs[j]) : j \in DOMAIN jobs}

Range(tracks) == {tracks[i] : i \in 1..Len(tracks)}

InOrderOfAppearance(tracks) ==
    \E m \in 0..MaxTrack : SeenTracks \cup Range(tracks) = 1..m

QueueTrack(t) ==
    /\ phase = "populate"
    /\ Len(jobs) < MaxJobs
    /\ InOrderOfAppearance(<<t>>)
    /\ Store(AddTrack(CreateJob(Queue), Len(jobs) + 1, t))
    /\ main_artist' = [main_artist EXCEPT ![t] = NoArtist]
    /\ UNCHANGED <<config, temp, loader, sink, lock, retry, cover, request, region, files_state, hooks, semaphore, phase, pc,
                   attempt, tg_cancelled, history, artist_jobs, track_artists,
                   ignore_different_artists, filter_skipped>>

QueueAlbum(tracks) ==
    /\ phase = "populate"
    /\ Len(jobs) < MaxJobs
    /\ InOrderOfAppearance(tracks)
    /\ Store(AddTracks(CreateJob(Queue), Len(jobs) + 1, tracks))
    /\ UNCHANGED <<config, temp, loader, sink, lock, retry, cover, request, artist_filter, region, files_state, hooks, semaphore, phase, pc, attempt, tg_cancelled, history>>

\* ------------------------------------------------- Downloader: processing
Running == {"waiting", "info", "fetch", "finalize"}
Ended == {"done", "raised", "cancelled"}
HoldsGate == {"info", "fetch", "finalize"}

\* process_queue, lines 480-489: one pipeline per registered Track Task.
StartProcessing ==
    /\ phase = "populate"
    /\ phase' = IF Registered = {} THEN "returned" ELSE "process"
    /\ pc' = [t \in TrackIds |-> IF t \in Registered THEN "waiting" ELSE "idle"]
    /\ UNCHANGED <<config, temp, loader, sink, lock, retry, cover, request, artist_filter, region, files_state, hooks, queue, semaphore, attempt, tg_cancelled, history>>

\* A pipeline resumes from a suspension point with its result unless the
\* task group's scope is cancelled; then it resumes with the cancellation.
AlwaysResumes == TRUE

Resumes == ~tg_cancelled

\* anyio.Semaphore: a permit is free.
GateAlwaysOpen == TRUE

GateOpen == semaphore > 0

\* `async with self._queue.semaphore`, entry.
Acquire(t) ==
    /\ pc[t] = "waiting"
    /\ Resumes
    /\ GateOpen
    /\ semaphore' = semaphore - 1
    /\ pc' = [pc EXCEPT ![t] = "info"]
    /\ attempt' = [attempt EXCEPT ![t] = 1]
    /\ UNCHANGED <<config, temp, loader, sink, lock, retry, cover, request, artist_filter, region, files_state, hooks, queue, phase, tg_cancelled, history>>

\* The `except Exception` around a hook call lets the exception through.
ExceptionEscapes(behaviour) == behaviour = HookRaises

\* The `except Exception` around each hook call of the three hook loops:
\* the exception is logged and the loop goes on.
ExceptionPropagates(behaviour) == FALSE

\* `for ext in extensions: try: await ext.<hook>(...) except Exception: log`,
\* from the i-th extension on: the extensions called, and whether an
\* exception left the loop.
RECURSIVE RunHooks(_, _)
RunHooks(exts, i) ==
    IF i > Len(exts) THEN [invoked |-> {}, escaped |-> FALSE]
    ELSE IF exts[i] = HookRaises /\ ExceptionPropagates(exts[i])
         THEN [invoked |-> {i}, escaped |-> TRUE]
         ELSE [RunHooks(exts, i + 1) EXCEPT !.invoked = @ \cup {i}]

\* _notify_extensions_track_complete.
NotifyExtensionsTrackComplete(exts) == RunHooks(exts, 1)

\* _download_track_task, line 538: `raise` under the abort flag.
AlwaysReraises == TRUE

Reraises == abort

\* _download_track_task, lines 530-539 and the exit of `async with`: the
\* except clause.
Except(q, t) ==
    /\ Store(MarkTrackComplete(UpdateProgress(q, t, FAILED), t, FAILED))
    /\ semaphore' = semaphore + 1
    /\ pc' = [pc EXCEPT ![t] = IF Reraises THEN "raised" ELSE "done"]
    /\ attempt' = [attempt EXCEPT ![t] = 0]
    /\ exc_escaped' = exc_escaped \cup {t}

\* _download_track_task, lines 512-529 and the exit of `async with`:
\* update_progress(final_status), mark_track_complete(final_status), the
\* track hook, the release.
Finish(q, t, st) ==
    LET marked == MarkTrackComplete(UpdateProgress(q, t, st), t, st)
        hook == NotifyExtensionsTrackComplete(extensions)
    IN /\ notified' = [notified EXCEPT ![t] = hook.invoked]
       /\ IF hook.escaped
          THEN Except(marked, t)
          ELSE /\ Store(marked)
               /\ semaphore' = semaphore + 1
               /\ pc' = [pc EXCEPT ![t] = "done"]
               /\ attempt' = [attempt EXCEPT ![t] = 0]
               /\ UNCHANGED exc_escaped

\* _download_track_task, lines 530-539 and the exit of `async with`:
\* update_progress(FAILED), mark_track_complete(FAILED), the release, then
\* return or re-raise; reached from _download_track, before the track hook.
Fail(q, t) ==
    /\ Except(q, t)
    /\ UNCHANGED notified

\* tenacity: stop_after_attempt(3).
Retries(t) == attempt[t] < MaxAttempts

\* A retry that reports the track PENDING again before the next attempt.
TransientErrorBackToPending(q, t) ==
    IF Retries(t)
    THEN /\ attempt' = [attempt EXCEPT ![t] = @ + 1]
         /\ pc' = [pc EXCEPT ![t] = "info"]
         /\ Store(UpdateProgress(q, t, PENDING))
         /\ UNCHANGED <<semaphore, exc_escaped, notified>>
    ELSE Fail(q, t)

\* tenacity on a transient error (ClientError, TimeoutError, OSError) in a
\* step of _download_track: the next attempt, or the error re-raised.
TransientError(q, t) ==
    IF Retries(t)
    THEN /\ attempt' = [attempt EXCEPT ![t] = @ + 1]
         /\ pc' = [pc EXCEPT ![t] = "info"]
         /\ Store(q)
         /\ UNCHANGED <<semaphore, exc_escaped, notified>>
    ELSE Fail(q, t)

\* _download_track, lines 755-818: get_track_info, the DOWNLOADING report,
\* the artist filter, track_info.error, the existence check.
GetTrackInfo(t) ==
    /\ pc[t] = "info"
    /\ Resumes
    /\ \E outcome \in {"proceed", "skip", "info_error", "none", "transient"} :
         CASE outcome = "proceed" ->
                /\ Store(UpdateProgress(Queue, t, DOWNLOADING))
                /\ pc' = [pc EXCEPT ![t] = "fetch"]
                /\ UNCHANGED <<semaphore, attempt, exc_raised, exc_escaped,
                                notified>>
           [] outcome = "skip" ->
                /\ Finish(UpdateProgress(Queue, t, DOWNLOADING), t, SKIPPED)
                /\ UNCHANGED exc_raised
           [] outcome = "info_error" ->
                /\ Fail(UpdateProgress(Queue, t, DOWNLOADING), t)
                /\ exc_raised' = exc_raised \cup {t}
           [] outcome = "none" ->
                /\ Fail(Queue, t)
                /\ exc_raised' = exc_raised \cup {t}
           [] outcome = "transient" ->
                /\ TransientError(Queue, t)
                /\ exc_raised' = exc_raised \cup {t}
    /\ UNCHANGED <<config, temp, loader, sink, lock, retry, cover, request, artist_filter, region, files_state, extension_run, phase, tg_cancelled>>

\* _download_track, lines 821-845: _process_track_download and _finalize_track.
FetchTrack(t) ==
    /\ pc[t] = "fetch"
    /\ Resumes
    /\ \E outcome \in {"ok", "fatal", "transient"} :
         CASE outcome = "ok" ->
                /\ Finish(Queue, t, COMPLETED)
                /\ UNCHANGED exc_raised
           [] outcome = "fatal" ->
                /\ Fail(Queue, t)
                /\ exc_raised' = exc_raised \cup {t}
           [] outcome = "transient" ->
                /\ TransientError(Queue, t)
                /\ exc_raised' = exc_raised \cup {t}
    /\ UNCHANGED <<config, temp, loader, sink, lock, retry, cover, request, artist_filter, region, files_state, extension_run, phase, tg_cancelled>>

\* The task group cancels its scope when a child has raised.
TaskGroupCancel ==
    /\ phase = "process"
    /\ ~tg_cancelled
    /\ \E t \in TrackIds : pc[t] = "raised"
    /\ tg_cancelled' = TRUE
    /\ UNCHANGED <<config, temp, loader, sink, lock, retry, cover, request, artist_filter, region, files_state, hooks, queue, semaphore, phase, pc, attempt, history>>

\* The permits after a cancelled pipeline has left `async with`.
LeakOnCancel(t) == semaphore

ReleaseOnCancel(t) ==
    IF pc[t] \in HoldsGate THEN semaphore + 1 ELSE semaphore

\* The last status a cancelled pipeline reports.  A pipeline whose backend
\* call ended before the cancellation was delivered runs on to the next
\* acquisition of the job lock, a checkpoint, and is cancelled there:
\* progress.update has recorded the status, the queue has not.
CancelReports(t) ==
    CASE pc[t] = "waiting" -> {progress[t]}
      [] pc[t] = "info" -> {progress[t], DOWNLOADING, FAILED}
      [] pc[t] \in {"fetch", "finalize"} -> {progress[t], COMPLETED, FAILED}

\* The cancellation reaches a pipeline at its suspension point and leaves
\* through `async with`; `except Exception` does not catch it.
Cancelled(t) ==
    /\ tg_cancelled
    /\ pc[t] \in Running
    /\ \E st \in CancelReports(t) :
           /\ progress' = [progress EXCEPT ![t] = st]
           /\ exc_raised' = IF st = FAILED THEN exc_raised \cup {t} ELSE exc_raised
           /\ exc_escaped' = IF st = FAILED THEN exc_escaped \cup {t} ELSE exc_escaped
    /\ semaphore' = ReleaseOnCancel(t)
    /\ pc' = [pc EXCEPT ![t] = "cancelled"]
    /\ attempt' = [attempt EXCEPT ![t] = 0]
    /\ UNCHANGED <<config, temp, loader, sink, lock, retry, cover, request, artist_filter, region, files_state, hooks, jobs, track_tasks, finish_count, cb_early, phase,
                   tg_cancelled>>

\* The task group's join: every child has ended.
NoJoin == TRUE

Joined == \A t \in Registered : pc[t] \in Ended

\* process_queue, lines 487-491: leaving the task group, get_results or
\* the children's exception.
ProcessQueueExit ==
    /\ phase = "process"
    /\ Joined
    /\ phase' = IF \E t \in TrackIds : pc[t] = "raised" THEN "raised" ELSE "returned"
    /\ UNCHANGED <<config, temp, loader, sink, lock, retry, cover, request, artist_filter, region, files_state, hooks, queue, semaphore, pc, attempt, tg_cancelled, history>>

Init ==
    /\ abort \in BOOLEAN
    /\ concurrent \in ConcurrentChoices
    /\ jobs = <<>>
    /\ track_tasks = [t \in TrackIds |-> NoJob]
    /\ progress = [t \in TrackIds |-> NoProgress]
    /\ semaphore = concurrent
    /\ phase = "populate"
    /\ pc = [t \in TrackIds |-> "idle"]
    /\ attempt = [t \in TrackIds |-> 0]
    /\ tg_cancelled = FALSE
    /\ finish_count = [j \in JobIds |-> 0]
    /\ cb_early = FALSE
    /\ exc_raised = {}
    /\ exc_escaped = {}
    /\ media = NoMedia
    /\ account_count = 0
    /\ rejects = [a \in Accounts |-> Accepts]
    /\ tried = <<>>
    /\ task_module = [t \in TrackIds |-> 0]
    /\ task_account_index = [t \in TrackIds |-> 0]
    /\ extensions = <<>>
    /\ notified = [t \in TrackIds |-> {}]
    /\ ext_done = [j \in JobIds |-> 0]
    /\ ext_invoked = [j \in JobIds |-> {}]
    /\ finalized = {}
    /\ core = "running"
    /\ result = NoResult
    /\ dry_run = FALSE
    /\ ignore_existing_files = FALSE
    /\ converts = FALSE
    /\ files = [t \in TrackIds |-> {}]
    /\ descriptor_requested = {}
    /\ bytes_fetched = {}
    /\ skipped_existing = {}
    /\ assets_fetched = {}
    /\ cover_fetched = {}
    /\ transcoded = {}
    /\ artist_jobs = {}
    /\ main_artist = [t \in TrackIds |-> NoArtist]
    /\ track_artists = [t \in TrackIds |-> {}]
    /\ ignore_different_artists = FALSE
    /\ filter_skipped = {}
    /\ media_to_download = <<>>
    /\ third_party_modules = "none"
    /\ media_infos = <<>>
    /\ returned = <<>>
    /\ call = NoCall
    /\ cover_cache = {}
    /\ cover_pc = [t \in TrackIds |-> "idle"]
    /\ cover_downloaded = {}
    /\ last_exception = [t \in TrackIds |-> "none"]
    /\ caught = [t \in TrackIds |-> "none"]
    /\ job_lock = 0
    /\ lock_pc = [t \in TrackIds |-> "idle"]
    /\ tasks = [present |-> FALSE, status |-> PENDING, current |-> 0, total |-> 0,
                mode |-> "percent"]
    /\ last_reported = -1
    /\ update_call = [op |-> "none", force |-> FALSE, status |-> NoProgress, name |-> FALSE,
                      mode |-> "none", dispatched |-> FALSE, sunk |-> -1]
    /\ module_accounts = 0
    /\ login_fails = {}
    /\ loaded_modules = {}
    /\ authenticated = {}
    /\ tracked_paths = {}
    /\ temp_files = {}
    /\ closed_modules = {}
    /\ cleaned = FALSE
    /\ load_call = [op |-> "none", account |-> 0, raised |-> FALSE, index |-> -1,
                    tried |-> <<>>]

Next ==
    \/ \E t \in TrackIds : QueueTrack(t)
    \/ \E tracks \in AlbumTrackLists : QueueAlbum(tracks)
    \/ StartProcessing
    \/ \E t \in TrackIds : Acquire(t)
    \/ \E t \in TrackIds : GetTrackInfo(t)
    \/ \E t \in TrackIds : FetchTrack(t)
    \/ TaskGroupCancel
    \/ \E t \in TrackIds : Cancelled(t)
    \/ ProcessQueueExit

Spec == Init /\ [][Next]_vars

TypeOK ==
    /\ semaphore \in 0..concurrent
    /\ \A t \in TrackIds : attempt[t] \in 0..MaxAttempts

\* ================================================================ claims
Owner(t) == jobs[track_tasks[t]]

HasTracks == {j \in DOMAIN jobs : TotalTracks(jobs[j]) > 0}

Holders == {t \in TrackIds : pc[t] \in HoldsGate}

\* As many terminal tracks as the job has track ids, and at least one.
EveryTrackCounted(job) ==
    /\ TotalTracks(job) > 0
    /\ Cardinality(job.completed_tracks \cup job.failed_tracks
                       \cup job.skipped_tracks) >= TotalTracks(job)

\* C1: for every job the sets completed_tracks, failed_tracks and
\* skipped_tracks are pairwise disjoint and their union is a subset of the
\* job's track_ids, in every reachable state.
C1_SetsDisjointWithinTrackIds ==
    \A j \in DOMAIN jobs :
        /\ jobs[j].completed_tracks \cap jobs[j].failed_tracks = {}
        /\ jobs[j].completed_tracks \cap jobs[j].skipped_tracks = {}
        /\ jobs[j].failed_tracks \cap jobs[j].skipped_tracks = {}
        /\ (jobs[j].completed_tracks \cup jobs[j].failed_tracks
                \cup jobs[j].skipped_tracks) \subseteq TrackIdSet(jobs[j])

C1_TwoSetsFilled ==
    \E j \in DOMAIN jobs :
        /\ jobs[j].completed_tracks # {}
        /\ jobs[j].failed_tracks # {}

\* C2: for every job the completion callback is invoked exactly once, and
\* only after every track id of the job's track_ids is terminal: never
\* twice, never early, and once by the time process_queue has returned.
C2_CallbackExactlyOnce ==
    /\ \A j \in JobIds : finish_count[j] <= 1
    /\ ~cb_early
    /\ phase = "returned" => \A j \in HasTracks : finish_count[j] = 1

\* C3: under default configuration, when process_queue has returned, every
\* job with at least one track has status COMPLETED or PARTIAL and has had
\* its completion callback invoked.
C3_EveryJobCompletes ==
    (~abort /\ phase = "returned") =>
        \A j \in HasTracks :
            /\ jobs[j].status \in {JobCompleted, JobPartial}
            /\ finish_count[j] >= 1

\* C4: at every moment the number of pipelines that have acquired the gate
\* and not released it is at most concurrent_downloads, and a pipeline that
\* is at a backend call holds a permit.
C4_GateBoundsHolders ==
    /\ Cardinality(Holders) <= concurrent
    /\ semaphore >= 0
    /\ semaphore + Cardinality(Holders) = concurrent

C4_GateFullWithWaiter ==
    /\ semaphore = 0
    /\ Cardinality(Holders) = concurrent
    /\ \E t \in TrackIds : pc[t] = "waiting"

\* C5: every pipeline that has ended (success, skip, swallowed failure,
\* re-raised failure, cancellation) holds no permit: the permits out are
\* those of the pipelines still inside `async with`, and once process_queue
\* has returned or raised all permits are back.
C5_GateReleasedOnEveryExit ==
    /\ concurrent - semaphore = Cardinality({t \in TrackIds : pc[t] \in HoldsGate})
    /\ phase \in {"returned", "raised"} => semaphore = concurrent

C5_CancelledWhileHolding ==
    /\ phase = "raised"
    /\ \E t \in TrackIds : pc[t] = "cancelled" /\ progress[t] = COMPLETED
    /\ \E t \in TrackIds : pc[t] = "raised"

\* The sets of its owning job that hold track t, named by progress status.
SetsHolding(t) ==
    {st \in TerminalProgress :
        t \in (CASE st = COMPLETED -> Owner(t).completed_tracks
                 [] st = FAILED -> Owner(t).failed_tracks
                 [] st = SKIPPED -> Owner(t).skipped_tracks)}

\* C6: process_queue returns (or raises) only after every spawned pipeline
\* has ended; under default configuration, when it has returned, every
\* registered Track Task's id is in exactly one of its owning job's three
\* sets, the one named by the last progress status reported for the track.
C6_JoinThenSetsMatchProgress ==
    /\ phase \in {"returned", "raised"} =>
           \A t \in Registered : pc[t] \in Ended
    /\ (~abort /\ phase = "returned") =>
           \A t \in Registered :
               /\ pc[t] = "done"
               /\ SetsHolding(t) = {progress[t]}

C6_ReturnedWithMixedOutcomes ==
    /\ ~abort
    /\ phase = "returned"
    /\ \E t \in Registered : progress[t] = COMPLETED
    /\ \E t \in Registered : progress[t] = FAILED

C8_FailurePropagates ==
    abort =>
        /\ \A t \in TrackIds :
               pc[t] = "raised" =>
                   /\ progress[t] = FAILED
                   /\ t \in Owner(t).failed_tracks
        /\ \A t \in exc_escaped : pc[t] \in {"raised", "cancelled"}
        /\ exc_escaped # {} => \E t \in exc_escaped : pc[t] = "raised"
        /\ phase = "returned" => exc_escaped = {}
        /\ phase = "raised" =>
               /\ \E t \in TrackIds : pc[t] = "raised"
               /\ \A t \in Registered : pc[t] \in Ended

\* Once process_queue has raised, no Track Task or Job state changes.
C8_QuietAfterRaise ==
    phase = "raised" =>
        UNCHANGED <<jobs, track_tasks, progress, pc, semaphore, finish_count>>

\* C8 as stated: with abort-on-single-failure the first failure is marked
\* FAILED and propagates, process_queue raises instead of returning, a
\* pipeline still waiting for the gate when a pipeline has failed never
\* starts its backend calls, and nothing changes once process_queue raised.
C8_WaitingNeverStartAfterFailure ==
    /\ []C8_FailurePropagates
    /\ [][/\ C8_QuietAfterRaise
          /\ (\E u \in TrackIds : pc[u] = "raised") =>
                 \A t \in TrackIds : pc[t] = "waiting" => pc'[t] # "info"]_vars

\* C8, amended: with abort-on-single-failure the first failure is marked
\* FAILED and propagates, process_queue raises instead of returning, a
\* pipeline still waiting for the gate when the task group cancels its scope
\* never starts its backend calls (one granted the gate between the failure
\* and the cancellation runs until its next suspension point), and nothing
\* changes once process_queue has raised.
C8_WaitingNeverStartAfterCancel ==
    /\ []C8_FailurePropagates
    /\ [][/\ C8_QuietAfterRaise
          /\ tg_cancelled =>
                 \A t \in TrackIds :
                     pc[t] = "waiting" =>
                         /\ pc'[t] \in {"waiting", "cancelled"}
                         /\ progress'[t] = PENDING]_vars

C8_RaisedWithWaiterCancelled ==
    /\ abort
    /\ phase = "raised"
    /\ \E t \in TrackIds : pc[t] = "cancelled" /\ progress[t] = PENDING
    /\ \E t \in TrackIds : pc[t] = "raised" /\ progress[t] = FAILED

\* C9: a job is finished exactly when its status is COMPLETED or PARTIAL;
\* it is COMPLETED when its failed set is empty and PARTIAL otherwise, and
\* skipped tracks count toward finished.
C9_FinishedStatusFollowsFailedSet ==
    \A j \in DOMAIN jobs :
        /\ jobs[j].status \in TerminalJobStatus <=> EveryTrackCounted(jobs[j])
        /\ jobs[j].status \in TerminalJobStatus =>
               jobs[j].status =
                   IF jobs[j].failed_tracks = {} THEN JobCompleted ELSE JobPartial

C9_SkippedCompletesFailedPartial ==
    /\ \E j \in DOMAIN jobs :
           /\ jobs[j].status = JobCompleted
           /\ jobs[j].skipped_tracks # {}
    /\ \E j \in DOMAIN jobs :
           /\ jobs[j].status = JobPartial
           /\ jobs[j].failed_tracks # {}

\* C10, per job: a status change is either PENDING -> DOWNLOADING in a step
\* of _download_track that reports DOWNLOADING for one of the job's
\* registered tracks (the step may go on to the track's final report), or
\* the single assignment of the terminal status when the last track of the
\* job becomes terminal.
StatusStep(j) ==
    \/ jobs'[j].status = jobs[j].status /\ finish_count'[j] = finish_count[j]
    \/ /\ jobs[j].status = JobPending
       /\ jobs'[j].status = JobDownloading
       /\ finish_count'[j] = finish_count[j]
       /\ \E t \in TrackIds :
              /\ track_tasks[t] = j
              /\ pc[t] = "info"
              /\ progress'[t] \in {DOWNLOADING, SKIPPED, FAILED}
    \/ /\ jobs[j].status \in {JobPending, JobDownloading}
       /\ jobs'[j].status \in {JobCompleted, JobPartial}
       /\ ~EveryTrackCounted(jobs[j])
       /\ EveryTrackCounted(jobs'[j])
       /\ finish_count[j] = 0
       /\ finish_count'[j] = 1

\* C10: a job's status only moves PENDING -> DOWNLOADING -> terminal;
\* update_progress changes it only from PENDING to DOWNLOADING, the terminal
\* status is assigned exactly once, when the job becomes finished, and no
\* later operation changes a COMPLETED or PARTIAL status.
C10_StatusOnlyMovesForward ==
    [][\A j \in DOMAIN jobs : StatusStep(j)]_vars

C10_TerminalAfterDownloading ==
    \E j \in DOMAIN jobs :
        /\ TotalTracks(jobs[j]) > 1
        /\ jobs[j].status = JobPartial
        /\ finish_count[j] = 1
        /\ phase = "returned"

\* C11: no sequence of queue operations and pipeline executions sets a
\* job's status to FAILED, also when every track of the job fails and when
\* the run is cancelled by the abort flag.
C11_JobNeverFailed ==
    \A j \in DOMAIN jobs : jobs[j].status # JobFailed

C11_AllTracksFailedUnderAbort ==
    /\ abort
    /\ phase = "raised"
    /\ \E j \in HasTracks :
           /\ jobs[j].failed_tracks = TrackIdSet(jobs[j])
           /\ jobs[j].status = JobPartial

\* C12: mark_track_complete is idempotent: in every reachable state, calling
\* it again for a track id already recorded under the same status leaves
\* every job's sets and status unchanged and does not invoke the
\* job-completion callback again.
C12_MarkTrackCompleteIdempotent ==
    \A t \in Registered :
        \A st \in SetsHolding(t) :
            /\ MarkTrackComplete(Queue, t, st).jobs = jobs
            /\ MarkTrackComplete(Queue, t, st).finish_count = finish_count

\* C13: each Track Task belongs to exactly one job: for every job j and
\* every track id t of j.track_ids the registry holds a Track Task for t
\* whose job_id is j, t is in the track_ids of no other job, and t occurs
\* once in j.track_ids.
C13_TrackTaskInExactlyOneJob ==
    \A j \in DOMAIN jobs :
        \A i \in 1..Len(jobs[j].track_ids) :
            /\ track_tasks[jobs[j].track_ids[i]] = j
            /\ \A k \in DOMAIN jobs \ {j} :
                   jobs[j].track_ids[i] \notin TrackIdSet(jobs[k])
            /\ \A i2 \in 1..Len(jobs[j].track_ids) :
                   jobs[j].track_ids[i2] = jobs[j].track_ids[i] => i2 = i

\* ------------------------------------------- Downloader: artist requests
\* The discographies get_artist_info returns: up to MaxAlbums albums, each
\* with the track list get_album_info returns for it.
Discographies ==
    UNION {[1..n -> AlbumTrackLists \ {<<>>}] : n \in 0..MaxAlbums}

\* queue_artist, lines 430-443: queue_album(parent_job_id=job_id) for every
\* album of the discography, in order.
RECURSIVE AddAlbums(_, _, _)
AddAlbums(q, job_id, albums) ==
    IF albums = <<>> THEN q
    ELSE AddAlbums(AddTracks(q, job_id, Head(albums)), job_id, Tail(albums))

\* queue_artist, lines 428-443: album_track_ids.
AlbumTrackIds(albums) == UNION {Range(albums[i]) : i \in 1..Len(albums)}

\* queue_artist, lines 446-453: the standalone tracks that are queued.
StandaloneQueued(albums, tracks, skip_downloaded) ==
    SelectSeq(tracks,
              LAMBDA t : ~(skip_downloaded /\ t \in AlbumTrackIds(albums)))

\* queue_artist for an artist the backend knows: one job, the albums'
\* tracks, then the standalone tracks.
QueueArtist(artist_name, albums, tracks, skip_downloaded) ==
    /\ phase = "populate"
    /\ jobs = <<>>
    /\ Store(AddTracks(AddAlbums(CreateJob(Queue), 1, albums), 1,
                       StandaloneQueued(albums, tracks, skip_downloaded)))
    /\ artist_jobs' = artist_jobs \cup {1}
    /\ main_artist' =
           [t \in TrackIds |->
               IF t \in AlbumTrackIds(albums)
                         \cup Range(StandaloneQueued(albums, tracks,
                                                     skip_downloaded))
               THEN artist_name ELSE main_artist[t]]
    /\ UNCHANGED <<config, temp, loader, sink, lock, retry, cover, request, region, files_state, hooks, semaphore, phase, pc,
                   attempt, tg_cancelled, history, track_artists,
                   ignore_different_artists, filter_skipped>>

\* One artist request, then the processing phase.
NextArtist ==
    \/ \E albums \in Discographies, tracks \in AlbumTrackLists,
          skip_downloaded \in BOOLEAN :
           QueueArtist("ABBA", albums, tracks, skip_downloaded)
    \/ StartProcessing
    \/ \E t \in TrackIds : Acquire(t)
    \/ \E t \in TrackIds : GetTrackInfo(t)
    \/ \E t \in TrackIds : FetchTrack(t)
    \/ TaskGroupCancel
    \/ \E t \in TrackIds : Cancelled(t)
    \/ ProcessQueueExit

SpecArtist == Init /\ [][NextArtist]_vars

\* C14: an artist request creates exactly one job, every Track Task queued
\* for its albums and standalone tracks carries that job's id, and the job
\* gives one finished signal, once all those tracks are terminal: never
\* twice, never early, and once by the time process_queue has returned.
C14_ArtistOneJobOneSignal ==
    /\ Len(jobs) <= 1
    /\ \A t \in Registered : track_tasks[t] = 1
    /\ \A j \in JobIds : finish_count[j] <= 1
    /\ ~cb_early
    /\ phase = "returned" => \A j \in HasTracks : finish_count[j] = 1

\* ------------------------------------ core: region failover at population
\* TrackTask.account_index keeps its dataclass default: no queue_* method
\* of the Downloader passes it to the TrackTask constructor.
DefaultAccountIndex == 0

Max(a, b) == IF a >= b THEN a ELSE b

\* The one media item of the run: an album, or an artist with a discography.
Medias ==
    {[kind |-> "album", albums |-> <<tracks>>] : tracks \in AlbumTrackLists}
        \cup {[kind |-> "artist", albums |-> albums] : albums \in Discographies}

\* The backend answers of the accounts _queue_media_item can ask about m.
Backends(m, count) ==
    {b \in [Accounts -> RejectPoints] :
        \A a \in Accounts :
            /\ a >= Max(count, 1) => b[a] = Accepts
            /\ b[a] # Accepts =>
                   b[a] <= (IF m.kind = "artist" THEN Len(m.albums) ELSE 0)}

\* Whether the queue_* call for m raises RegionRestrictedError.
RegionRestricted(m, point) ==
    /\ point # Accepts
    /\ point = 0 \/ (m.kind = "artist" /\ point <= Len(m.albums))

\* _find_next_account with the bound included.
FindNextAccountInclusive(current, total) ==
    IF current + 1 <= total THEN current + 1 ELSE NoAccount

\* _find_next_account(current, total); None is NoAccount.
FindNextAccount(current, total) ==
    IF current + 1 < total THEN current + 1 ELSE NoAccount

\* The population state a queue_* call works on: the queue and the module
\* and account_index fields of the Track Tasks.
Population ==
    [q |-> Queue, task_module |-> task_module,
     task_account_index |-> task_account_index, tried |-> tried,
     raised |-> FALSE]

\* The TrackTask constructors of queue_album / queue_artist followed by
\* add_track, for the module instance of account.
RECURSIVE AddTasks(_, _, _, _)
AddTasks(p, job_id, tracks, account) ==
    IF tracks = <<>> THEN p
    ELSE AddTasks([p EXCEPT !.q = AddTrack(@, job_id, Head(tracks)),
                            !.task_module[Head(tracks)] = account,
                            !.task_account_index[Head(tracks)] =
                                DefaultAccountIndex],
                  job_id, Tail(tracks), account)

RECURSIVE AddAlbumTasks(_, _, _, _)
AddAlbumTasks(p, job_id, albums, account) ==
    IF albums = <<>> THEN p
    ELSE AddAlbumTasks(AddTasks(p, job_id, Head(albums), account), job_id,
                       Tail(albums), account)

\* queue_album / queue_artist with the module of account, up to the call
\* that raises RegionRestrictedError (point), if any: the info call of the
\* item comes before create_job, the info call of the k-th album of an
\* artist after create_job and after the tracks of the albums before it.
QueueAttempt(p, m, point, account) ==
    IF point = 0 THEN p
    ELSE LET job_id == Len(p.q.jobs) + 1
             queued == IF point = Accepts THEN m.albums
                       ELSE SubSeq(m.albums, 1, point - 1)
         IN AddAlbumTasks([p EXCEPT !.q = CreateJob(@)], job_id, queued,
                          account)

\* _queue_media_item(..., account_index): the try block, and in the except
\* clause the recursive call with the next account or the re-raise.
RECURSIVE QueueMediaItemFrom(_, _, _, _, _)
QueueMediaItemFrom(p, m, count, backend, account_index) ==
    LET after == QueueAttempt([p EXCEPT !.tried = Append(@, account_index)],
                              m, backend[account_index], account_index)
        next_account == FindNextAccount(account_index, count)
    IN IF ~RegionRestricted(m, backend[account_index]) THEN after
       ELSE IF next_account = NoAccount THEN [after EXCEPT !.raised = TRUE]
       ELSE QueueMediaItemFrom(after, m, count, backend, next_account)

\* haberlea_core_download, phase 1, for one media item: _queue_module_items
\* calls _queue_media_item with account_index 0; an exception leaves
\* haberlea_core_download before process_queue is called.
QueueMediaItem(m, count, backend) ==
    /\ phase = "populate"
    /\ jobs = <<>>
    /\ tried = <<>>
    /\ LET p == QueueMediaItemFrom(Population, m, count, backend, 0) IN
           /\ Store(p.q)
           /\ task_module' = p.task_module
           /\ task_account_index' = p.task_account_index
           /\ tried' = p.tried
           /\ phase' = IF p.raised THEN "populate_raised" ELSE phase
    /\ media' = m
    /\ account_count' = count
    /\ rejects' = backend
    /\ UNCHANGED <<config, temp, loader, sink, lock, retry, cover, request, artist_filter, hooks, files_state, semaphore, pc, attempt,
                   tg_cancelled, history>>

NextFailover ==
    \/ \E m \in Medias, count \in 0..MaxAccounts :
           \E backend \in Backends(m, count) : QueueMediaItem(m, count, backend)
    \/ StartProcessing

SpecFailover == Init /\ [][NextFailover]_vars

\* C15: when the backend rejects account 0 as region-restricted and accepts
\* account 1, the enqueue succeeds and every Track Task references only
\* account 1: the module instance of account 1 and account index 1.
C15_FailoverReferencesOnlyAcceptedAccount ==
    (/\ tried # <<>>
     /\ account_count >= 2
     /\ RegionRestricted(media, rejects[0])
     /\ ~RegionRestricted(media, rejects[1]))
        => /\ phase # "populate_raised"
           /\ tried = <<0, 1>>
           /\ \A t \in Registered :
                  task_module[t] = 1 /\ task_account_index[t] = 1

\* C16: after a failover the queue holds one Job for the media item, and
\* no Job or Track Task left over from a failed attempt: every track of
\* every Job is a task of that Job made with the last account tried.
C16_FailoverLeavesOneJob ==
    (Len(tried) >= 2 /\ phase # "populate_raised")
        => /\ Len(jobs) <= 1
           /\ \A j \in DOMAIN jobs : \A t \in TrackIdSet(jobs[j]) :
                  track_tasks[t] = j /\ task_module[t] = tried[Len(tried)]

\* C17: the accounts are tried from 0 in increasing order, each once, a
\* further one only after a rejection and only below the configured count;
\* when every account rejects, the error is re-raised to the caller of the
\* population and no pipeline is ever started.
C17_FailoverTerminates ==
    /\ \A i \in 1..Len(tried) :
           /\ tried[i] = i - 1
           /\ i > 1 => /\ tried[i] < account_count
                       /\ RegionRestricted(media, rejects[tried[i - 1]])
    /\ (/\ tried # <<>>
        /\ \A a \in 0..(Max(account_count, 1) - 1) :
               RegionRestricted(media, rejects[a]))
           => /\ phase = "populate_raised"
              /\ Len(tried) = Max(account_count, 1)
    /\ phase = "populate_raised"
           => /\ \A i \in 1..Len(tried) :
                      RegionRestricted(media, rejects[tried[i]])
              /\ \A t \in TrackIds : pc[t] = "idle"

C17_EveryAccountRejected ==
    /\ phase = "populate_raised"
    /\ account_count = MaxAccounts
    /\ Len(tried) = MaxAccounts
    /\ jobs # <<>>

\* ------------------------------------- core: extensions around the queue
ExtensionLists == UNION {[1..n -> HookBehaviours] : n \in 1..MaxExtensions}

\* Haberlea.__init__: the discovered extensions are registered and
\* initialized before any download is requested.
RegisterExtensions(exts) ==
    /\ phase = "populate"
    /\ jobs = <<>>
    /\ extensions = <<>>
    /\ extensions' = exts
    /\ UNCHANGED <<config, temp, loader, sink, lock, retry, cover, request, artist_filter, region, files_state, queue, semaphore, phase, pc, attempt,
                   tg_cancelled, history, notified, ext_done, ext_invoked,
                   finalized, core, result>>

\* get_results listing the skipped track ids among the completed ones.
GetResultsWithSkipped(q) ==
    [completed |-> [j \in DOMAIN q.jobs |->
                       q.jobs[j].completed_tracks \cup q.jobs[j].skipped_tracks],
     failed |-> [j \in DOMAIN q.jobs |-> q.jobs[j].failed_tracks]]

\* get_results: per job, the completed and the failed track ids.
GetResults(q) ==
    [completed |-> [j \in DOMAIN q.jobs |-> q.jobs[j].completed_tracks],
     failed |-> [j \in DOMAIN q.jobs |-> q.jobs[j].failed_tracks]]

\* on_job_complete of haberlea_core_download: every finished signal of a
\* job creates one _run_extensions task in the TaskGroup.
SpawnedExtensionTasks(j) == finish_count[j]

\* One _run_extensions task of job j, from its start to its end; the
\* TaskGroup cancels the tasks not yet ended when process_queue raises.
RunExtensions(j) ==
    /\ core = "running"
    /\ phase # "raised"
    /\ ext_done[j] < SpawnedExtensionTasks(j)
    /\ LET hook == RunHooks(extensions, 1) IN
           /\ ext_invoked' = [ext_invoked EXCEPT ![j] = hook.invoked]
           /\ IF hook.escaped
              THEN core' = "raised" /\ UNCHANGED ext_done
              ELSE ext_done' = [ext_done EXCEPT ![j] = @ + 1] /\ UNCHANGED core
    /\ UNCHANGED <<config, temp, loader, sink, lock, retry, cover, request, artist_filter, region, files_state, queue, semaphore, phase, pc, attempt,
                   tg_cancelled, history, extensions, notified, finalized,
                   result>>

\* The TaskGroup leaves its block without waiting for its tasks.
NoWaitForExtensionTasks == TRUE

\* asyncio.TaskGroup.__aexit__: every task created in the group has ended.
ExtensionTasksDone == \A j \in JobIds : ext_done[j] = SpawnedExtensionTasks(j)

\* `async with asyncio.TaskGroup() as tg`, the exit: with the result of
\* process_queue once the extension tasks have ended, or with its exception.
TaskGroupExit ==
    /\ core = "running"
    /\ \/ /\ phase = "returned"
          /\ ExtensionTasksDone
          /\ core' = "finalize"
          /\ result' = GetResults(Queue)
       \/ /\ phase = "raised"
          /\ core' = "raised"
          /\ UNCHANGED result
    /\ UNCHANGED <<config, temp, loader, sink, lock, retry, cover, request, artist_filter, region, files_state, queue, semaphore, phase, pc, attempt,
                   tg_cancelled, history, extensions, notified, ext_done,
                   ext_invoked, finalized>>

\* _run_extensions_finalize, then `return completed, failed`.
RunExtensionsFinalize ==
    /\ core = "finalize"
    /\ LET hook == RunHooks(extensions, 1) IN
           /\ finalized' = hook.invoked
           /\ core' = IF hook.escaped THEN "raised" ELSE "returned"
    /\ UNCHANGED <<config, temp, loader, sink, lock, retry, cover, request, artist_filter, region, files_state, queue, semaphore, phase, pc, attempt,
                   tg_cancelled, history, extensions, notified, ext_done,
                   ext_invoked, result>>

NextCore ==
    \/ \E exts \in ExtensionLists : RegisterExtensions(exts)
    \/ \E t \in TrackIds : QueueTrack(t)
    \/ StartProcessing
    \/ \E t \in TrackIds : Acquire(t)
    \/ \E t \in TrackIds : GetTrackInfo(t)
    \/ \E t \in TrackIds : FetchTrack(t)
    \/ TaskGroupCancel
    \/ \E t \in TrackIds : Cancelled(t)
    \/ ProcessQueueExit
    \/ \E j \in JobIds : RunExtensions(j)
    \/ TaskGroupExit
    \/ RunExtensionsFinalize

SpecCore == Init /\ [][NextCore]_vars

\* C18: haberlea_core_download returns its result, and on_all_complete is
\* called, only after process_queue has returned with every pipeline ended
\* and every job-completion extension task created has finished.
C18_ReturnsAfterExtensionTasks ==
    (core \in {"finalize", "returned"} \/ finalized # {})
        => /\ phase = "returned"
           /\ \A t \in Registered : pc[t] \in Ended
           /\ \A j \in JobIds : ext_done[j] = SpawnedExtensionTasks(j)

C18_ReturnedAfterTwoJobsExtensions ==
    /\ core = "returned"
    /\ extensions # <<>>
    /\ finalized # {}
    /\ Len(jobs) >= 2
    /\ \A j \in DOMAIN jobs : ext_done[j] >= 1

\* C19: an exception raised inside an extension hook goes nowhere: the
\* extensions after the raising one are still called, a track whose hook
\* was called keeps its COMPLETED or SKIPPED status and is in no failed set,
\* the call raises only when process_queue raised, and the result returned
\* is the one the Job sets give.
C19_HookExceptionsStayInside ==
    /\ \A t \in TrackIds : notified[t] # {} =>
           /\ notified[t] = 1..Len(extensions)
           /\ pc[t] = "done"
           /\ progress[t] \in {COMPLETED, SKIPPED}
           /\ t \notin exc_escaped
           /\ \A j \in DOMAIN jobs : t \notin jobs[j].failed_tracks
    /\ \A j \in JobIds : ext_invoked[j] # {} =>
           ext_invoked[j] = 1..Len(extensions)
    /\ finalized # {} => finalized = 1..Len(extensions)
    /\ core = "raised" => phase = "raised"
    /\ core = "returned" => result = GetResults(Queue)

C19_RaisingExtensionBeforeAnother ==
    /\ core = "returned"
    /\ Len(extensions) >= 2
    /\ extensions[1] = HookRaises
    /\ finalized = 1..Len(extensions)
    /\ \E t \in Registered :
           /\ progress[t] = COMPLETED
           /\ notified[t] = 1..Len(extensions)
           /\ ext_invoked[track_tasks[t]] = 1..Len(extensions)

\* --------------------------- Downloader: the existence check and the file
\* Where a file of a track can be: track_location (the container of the
\* downloaded codec) and the location with the container of the codec it
\* is converted to.
DownloadLocation == "download"
ConvertedLocation == "converted"

\* _check_file_exists: check_location.
CheckLocation == IF converts THEN ConvertedLocation ELSE DownloadLocation

\* The existence check without the dry-run clause.
FileOnDiskOnly(t) == CheckLocation \in files[t] /\ ignore_existing_files

\* _check_file_exists(track_location_name, codec)[0].
CheckFileExists(t) ==
    \/ dry_run
    \/ CheckLocation \in files[t] /\ ignore_existing_files

\* The settings file and the download directory as the run finds them:
\* existing holds the tracks an earlier run has left a finished file of.
LoadSettings(dry, ignore, conv, existing) ==
    /\ phase = "populate"
    /\ jobs = <<>>
    /\ ~dry_run /\ ~ignore_existing_files /\ ~converts
    /\ files = [t \in TrackIds |-> {}]
    /\ dry \/ ignore \/ conv \/ existing # {}
    /\ dry_run' = dry
    /\ ignore_existing_files' = ignore
    /\ converts' = conv
    /\ files' = [t \in TrackIds |->
                    IF t \notin existing THEN {}
                    ELSE IF conv THEN {ConvertedLocation}
                    ELSE {DownloadLocation}]
    /\ UNCHANGED <<config, temp, loader, sink, lock, retry, cover, request, artist_filter, region, hooks, queue, semaphore,
                   phase, pc, attempt, tg_cancelled, history,
                   descriptor_requested, bytes_fetched, skipped_existing,
                   assets_fetched, cover_fetched, transcoded>>

\* str.lower on the artist names.
Lower(name) ==
    CASE name = "ABBA" -> "abba"
      [] name = "Queen" -> "queen"
      [] OTHER -> name

\* The artist filter compares the names as they are spelled.
CheckArtistFilterCaseSensitive(t) ==
    /\ track_tasks[t] \in artist_jobs
    /\ main_artist[t] # NoArtist
    /\ ignore_different_artists
    /\ main_artist[t] \notin track_artists[t]

\* _check_artist_filter(task, track_info, job) for the task of track t and
\* the job of its job_id.
CheckArtistFilter(t) ==
    /\ track_tasks[t] \in artist_jobs
    /\ main_artist[t] # NoArtist
    /\ ignore_different_artists
    /\ Lower(main_artist[t]) \notin {Lower(a) : a \in track_artists[t]}

\* _download_track, lines 755-818: get_track_info, the DOWNLOADING report,
\* the artist filter, track_info.error, the existence check.
CheckTrack(t) ==
    /\ pc[t] = "info"
    /\ Resumes
    /\ \E outcome \in {"checked", "info_error", "none", "transient"} :
         CASE outcome \in {"checked", "info_error"} /\ CheckArtistFilter(t) ->
                /\ Finish(UpdateProgress(Queue, t, DOWNLOADING), t, SKIPPED)
                /\ filter_skipped' = filter_skipped \cup {t}
                /\ UNCHANGED <<exc_raised, skipped_existing>>
           [] outcome = "checked" /\ ~CheckArtistFilter(t) ->
                IF CheckFileExists(t)
                THEN /\ Finish(UpdateProgress(Queue, t, DOWNLOADING), t, SKIPPED)
                     /\ skipped_existing' = skipped_existing \cup {t}
                     /\ UNCHANGED <<exc_raised, filter_skipped>>
                ELSE /\ Store(UpdateProgress(Queue, t, DOWNLOADING))
                     /\ pc' = [pc EXCEPT ![t] = "fetch"]
                     /\ UNCHANGED <<semaphore, attempt, exc_raised, exc_escaped,
                                    notified, skipped_existing, filter_skipped>>
           [] outcome = "info_error" /\ ~CheckArtistFilter(t) ->
                /\ Fail(UpdateProgress(Queue, t, DOWNLOADING), t)
                /\ exc_raised' = exc_raised \cup {t}
                /\ UNCHANGED <<skipped_existing, filter_skipped>>
           [] outcome = "none" ->
                /\ Fail(Queue, t)
                /\ exc_raised' = exc_raised \cup {t}
                /\ UNCHANGED <<skipped_existing, filter_skipped>>
           [] outcome = "transient" ->
                /\ TransientError(Queue, t)
                /\ exc_raised' = exc_raised \cup {t}
                /\ UNCHANGED <<skipped_existing, filter_skipped>>
    /\ UNCHANGED <<config, temp, loader, sink, lock, retry, cover, request, region, extension_run, phase, tg_cancelled, dry_run,
                   ignore_existing_files, converts, files,
                   descriptor_requested, bytes_fetched, assets_fetched,
                   cover_fetched, transcoded, artist_jobs, main_artist,
                   track_artists, ignore_different_artists>>

\* _download_track_file, the except clause, and _process_track_download,
\* line 617: the exception is re-raised under the abort flag, and tenacity
\* retries it when it is a transient one; else the result is None and
\* InvalidTrackError is raised.
DownloadError(t, kind) ==
    /\ exc_raised' = exc_raised \cup {t}
    /\ IF abort /\ kind = "transient"
       THEN TransientError(Queue, t)
       ELSE Fail(Queue, t)

\* _process_track_download: get_track_download, then download_file, which
\* writes to track_location as the bytes arrive, returns at once when the
\* file is there, and leaves what it has written when it fails.
DownloadTrackFile(t) ==
    /\ pc[t] = "fetch"
    /\ Resumes
    /\ descriptor_requested' = descriptor_requested \cup {t}
    /\ \E outcome \in {"ok", "no_descriptor", "partial"},
          kind \in {"transient", "fatal"} :
         CASE outcome = "ok" ->
                /\ bytes_fetched' = IF DownloadLocation \in files[t]
                                    THEN bytes_fetched
                                    ELSE bytes_fetched \cup {t}
                /\ files' = [files EXCEPT ![t] = @ \cup {DownloadLocation}]
                /\ pc' = [pc EXCEPT ![t] = "finalize"]
                /\ UNCHANGED <<queue, semaphore, attempt, history, notified>>
           [] outcome = "no_descriptor" ->
                /\ DownloadError(t, kind)
                /\ UNCHANGED <<bytes_fetched, files>>
           [] outcome = "partial" ->
                /\ DownloadLocation \notin files[t]
                /\ bytes_fetched' = bytes_fetched \cup {t}
                /\ files' = [files EXCEPT ![t] = @ \cup {DownloadLocation}]
                /\ DownloadError(t, kind)
    /\ UNCHANGED <<config, temp, loader, sink, lock, retry, cover, request, artist_filter, region, extension_run, phase,
                   tg_cancelled, dry_run, ignore_existing_files, converts,
                   skipped_existing, assets_fetched, cover_fetched, transcoded>>

\* _finalize_track and the return of _download_track: cover, lyrics,
\* credits, conversion (the original is removed), tagging.
FinalizeTrack(t) ==
    /\ pc[t] = "finalize"
    /\ Resumes
    /\ \E outcome \in {"ok", "fatal", "transient"} :
         CASE outcome = "ok" ->
                /\ files' = IF converts
                            THEN [files EXCEPT ![t] = {ConvertedLocation}]
                            ELSE files
                /\ transcoded' = IF converts THEN transcoded \cup {t}
                                 ELSE transcoded
                /\ Finish(Queue, t, COMPLETED)
                /\ UNCHANGED exc_raised
           [] outcome = "fatal" ->
                /\ Fail(Queue, t)
                /\ exc_raised' = exc_raised \cup {t}
                /\ UNCHANGED <<files, transcoded>>
           [] outcome = "transient" ->
                /\ TransientError(Queue, t)
                /\ exc_raised' = exc_raised \cup {t}
                /\ UNCHANGED <<files, transcoded>>
    /\ cover_fetched' = cover_fetched \cup {t}
    /\ UNCHANGED <<config, temp, loader, sink, lock, retry, cover, request, artist_filter, region, extension_run, phase,
                   tg_cancelled, dry_run, ignore_existing_files, converts,
                   descriptor_requested, bytes_fetched, skipped_existing,
                   assets_fetched>>

NextTrack ==
    \/ \E dry \in BOOLEAN, ignore \in BOOLEAN, conv \in BOOLEAN,
          existing \in SUBSET TrackIds : LoadSettings(dry, ignore, conv, existing)
    \/ \E t \in TrackIds : QueueTrack(t)
    \/ StartProcessing
    \/ \E t \in TrackIds : Acquire(t)
    \/ \E t \in TrackIds : CheckTrack(t)
    \/ \E t \in TrackIds : DownloadTrackFile(t)
    \/ \E t \in TrackIds : FinalizeTrack(t)
    \/ TaskGroupCancel
    \/ \E t \in TrackIds : Cancelled(t)
    \/ ProcessQueueExit

SpecTrack == Init /\ [][NextTrack]_vars

\* C20: a track skipped because of the existence check had no download
\* descriptor requested and no bytes fetched at any point of the run,
\* earlier attempts of a retried pipeline included, and is counted in the
\* skipped set of its Job.
C20_SkippedByCheckFetchedNothing ==
    \A t \in skipped_existing :
        /\ t \notin descriptor_requested
        /\ t \notin bytes_fetched
        /\ t \in Owner(t).skipped_tracks

\* --------------------------------------------------- Downloader: dry run
\* queue_album for the one request of a run (queue_playlist has the same
\* shape): the job, the album assets unless dry_run, then the tracks.
QueueAlbumAssets(artist_name, tracks) ==
    /\ phase = "populate"
    /\ jobs = <<>>
    /\ Store(AddTracks(CreateJob(Queue), 1, tracks))
    /\ assets_fetched' = IF dry_run THEN assets_fetched
                         ELSE assets_fetched \cup {1}
    /\ main_artist' = [t \in TrackIds |->
                          IF t \in Range(tracks) THEN artist_name
                          ELSE main_artist[t]]
    /\ UNCHANGED <<config, temp, loader, sink, lock, retry, cover, request, region, hooks, semaphore, phase, pc, attempt,
                   tg_cancelled, history, dry_run, ignore_existing_files,
                   converts, files, descriptor_requested, bytes_fetched,
                   skipped_existing, cover_fetched, transcoded, artist_jobs,
                   track_artists, ignore_different_artists, filter_skipped>>

\* One album request with or without the dry-run flag, then the
\* processing phase.
NextDryRun ==
    \/ \E conv \in BOOLEAN : LoadSettings(TRUE, FALSE, conv, {})
    \/ \E tracks \in AlbumTrackLists : QueueAlbumAssets("ABBA", tracks)
    \/ StartProcessing
    \/ \E t \in TrackIds : Acquire(t)
    \/ \E t \in TrackIds : CheckTrack(t)
    \/ \E t \in TrackIds : DownloadTrackFile(t)
    \/ \E t \in TrackIds : FinalizeTrack(t)
    \/ TaskGroupCancel
    \/ \E t \in TrackIds : Cancelled(t)
    \/ ProcessQueueExit

SpecDryRun == Init /\ [][NextDryRun]_vars

\* C21: with the dry-run flag set nothing is fetched: population fetches
\* no album assets, no pipeline requests a download descriptor, fetches
\* bytes or a cover, or transcodes, no track is COMPLETED, and a track
\* whose pipeline has ended on its own is SKIPPED or FAILED.
C21_DryRunFetchesNothing ==
    dry_run =>
        /\ assets_fetched = {}
        /\ descriptor_requested = {}
        /\ bytes_fetched = {}
        /\ cover_fetched = {}
        /\ transcoded = {}
        /\ \A t \in TrackIds :
               /\ progress[t] # COMPLETED
               /\ pc[t] \notin {"fetch", "finalize"}
               /\ pc[t] \in {"done", "raised"} => progress[t] \in {SKIPPED, FAILED}
        /\ \A j \in DOMAIN jobs : jobs[j].completed_tracks = {}

C21_DryRunAlbumSkipped ==
    /\ dry_run
    /\ phase = "returned"
    /\ Len(jobs) = 1
    /\ Len(jobs[1].track_ids) = MaxTrack
    /\ jobs[1].skipped_tracks # {}
    /\ jobs[1].status \in TerminalJobStatus

\* ------------------------------------------- Downloader: the artist filter
\* The artist-downloading setting and the backend's track metadata as the
\* run finds them: TrackInfo.artists names "Queen" for the tracks in
\* different and "abba" for the others.
LoadArtistSettings(ignore, different) ==
    /\ phase = "populate"
    /\ jobs = <<>>
    /\ \A t \in TrackIds : track_artists[t] = {}
    /\ ignore_different_artists' = ignore
    /\ track_artists' = [t \in TrackIds |->
                            IF t \in different THEN {"Queen"} ELSE {"abba"}]
    /\ UNCHANGED <<config, temp, loader, sink, lock, retry, cover, request, region, files_state, hooks, queue, semaphore, phase,
                   pc, attempt, tg_cancelled, history, artist_jobs, main_artist,
                   filter_skipped>>

\* One request, for the standalone tracks of an artist or for an album,
\* the first track by a different artist or not, then the processing phase.
NextFilter ==
    \/ \E ignore \in BOOLEAN, different \in {{}, {1}} :
           LoadArtistSettings(ignore, different)
    \/ \E artist_name \in {"ABBA", NoArtist}, tracks \in AlbumTrackLists :
           QueueArtist(artist_name, <<>>, tracks, FALSE)
    \/ \E tracks \in AlbumTrackLists : QueueAlbumAssets("ABBA", tracks)
    \/ StartProcessing
    \/ \E t \in TrackIds : Acquire(t)
    \/ \E t \in TrackIds : CheckTrack(t)
    \/ \E t \in TrackIds : DownloadTrackFile(t)
    \/ \E t \in TrackIds : FinalizeTrack(t)
    \/ TaskGroupCancel
    \/ \E t \in TrackIds : Cancelled(t)
    \/ ProcessQueueExit

SpecFilter == Init /\ [][NextFilter]_vars

\* The job of the Track Task of t is an artist-level job, artist filtering
\* is enabled, the task has a primary artist, and no artist of the track
\* equals it when both are lower-cased.
FilterCase(t) ==
    /\ track_tasks[t] \in artist_jobs
    /\ ignore_different_artists
    /\ main_artist[t] # NoArtist
    /\ \A a \in track_artists[t] : Lower(a) # Lower(main_artist[t])

\* C22: a track is skipped by the artist filter exactly in the filter case:
\* a track skipped by the filter is in that case, is SKIPPED in its job and
\* had nothing fetched; a track in that case never gets past the filter;
\* a track whose job is not an artist-level job is never skipped by it.
C22_ArtistFilterExactly ==
    /\ \A t \in filter_skipped :
           /\ FilterCase(t)
           /\ progress[t] = SKIPPED
           /\ t \in Owner(t).skipped_tracks
           /\ t \notin descriptor_requested \cup bytes_fetched \cup cover_fetched
    /\ \A t \in Registered : FilterCase(t) =>
           /\ pc[t] \notin {"fetch", "finalize"}
           /\ t \notin skipped_existing \cup descriptor_requested
           /\ progress[t] # COMPLETED
           /\ t \in Owner(t).skipped_tracks => t \in filter_skipped
    /\ \A t \in Registered :
           track_tasks[t] \notin artist_jobs => t \notin filter_skipped

C22_OneSkippedOneMatchedIgnoringCase ==
    /\ phase = "returned"
    /\ \E t \in filter_skipped : track_artists[t] = {"Queen"}
    /\ \E t \in Registered :
           /\ track_tasks[t] \in artist_jobs
           /\ main_artist[t] = "ABBA"
           /\ track_artists[t] = {"abba"}
           /\ progress[t] = COMPLETED

\* ------------------------------------- haberlea_core_download: validation
\* third_party_modules as _validate_third_party_modules meets it: every
\* selection known and capable ("ok", also when nothing is selected), one
\* not in session.module_list, or one lacking the mode it was selected for.
ThirdPartySelections == {"ok", "unknown", "unsupported"}

\* media_to_download: the backends in insertion order, each with whether
\* its module_supported_modes hold ModuleModes.download and with the track
\* ids it is asked for; backend k asks for track k.
RequestMaps ==
    UNION {{[k \in 1..n |-> [download |-> modes[k], items |-> <<k>>]] :
               modes \in [1..n -> BOOLEAN]} :
           n \in {m \in 1..MaxJobs : m <= MaxTrack}}

\* _queue_module_items, lines 1043-1051: _queue_media_item for each item;
\* a track request is queue_track, one job holding the track.
RECURSIVE QueueItems(_, _)
QueueItems(q, items) ==
    IF items = <<>> THEN q
    ELSE QueueItems(AddTrack(CreateJob(q), Len(q.jobs) + 1, Head(items)),
                    Tail(items))

\* haberlea_core_download, lines 988-995, with _queue_module_items, lines
\* 1035-1038: backend after backend, the capability of each one checked
\* when its turn comes; ModuleDoesNotSupportAbility ends the loop.
RECURSIVE CollectTracks(_, _)
CollectTracks(q, modules) ==
    IF modules = <<>> THEN [q |-> q, raised |-> FALSE]
    ELSE IF ~Head(modules).download THEN [q |-> q, raised |-> TRUE]
    ELSE CollectTracks(QueueItems(q, Head(modules).items), Tail(modules))

\* haberlea_core_download up to the end of phase 1: the auxiliary
\* selection is validated first, then the tracks are collected; an
\* exception of either leaves the function before process_queue is called.
HaberleaCoreDownload(modules, third_party) ==
    /\ phase = "populate"
    /\ core = "running"
    /\ jobs = <<>>
    /\ media_to_download = <<>>
    /\ media_to_download' = modules
    /\ third_party_modules' = third_party
    /\ UNCHANGED <<media_infos, returned, call>>
    /\ IF third_party # "ok"
       THEN /\ core' = "raised"
            /\ phase' = "populate_raised"
            /\ UNCHANGED queue
       ELSE LET collected == CollectTracks(Queue, modules) IN
                /\ Store(collected.q)
                /\ core' = IF collected.raised THEN "raised" ELSE core
                /\ phase' = IF collected.raised THEN "populate_raised" ELSE phase
    /\ UNCHANGED <<config, temp, loader, sink, lock, retry, cover, artist_filter, region, files_state, semaphore, pc,
                   attempt, tg_cancelled, history, extensions, ext_done,
                   ext_invoked, finalized, result, notified>>

NextRequest ==
    \/ \E modules \in RequestMaps, third_party \in ThirdPartySelections :
           HaberleaCoreDownload(modules, third_party)
    \/ StartProcessing
    \/ \E t \in TrackIds : Acquire(t)
    \/ \E t \in TrackIds : GetTrackInfo(t)
    \/ \E t \in TrackIds : FetchTrack(t)
    \/ TaskGroupCancel
    \/ \E t \in TrackIds : Cancelled(t)
    \/ ProcessQueueExit

SpecRequest == Init /\ [][NextRequest]_vars

\* A backend of the request map lacks the download capability, or the
\* auxiliary selection is unknown or lacks its capability.
ConfigurationError ==
    \/ third_party_modules \in {"unknown", "unsupported"}
    \/ \E k \in DOMAIN media_to_download : ~media_to_download[k].download

\* C23: when a backend of the request map lacks the download capability,
\* or the auxiliary selection is unknown or lacks its capability,
\* haberlea_core_download signals the configuration error before any Job
\* or Track Task exists, for any backend, and before any pipeline starts.
C23_ConfigurationErrorBeforePopulation ==
    ConfigurationError
        => /\ core = "raised"
           /\ jobs = <<>>
           /\ Registered = {}
           /\ \A t \in TrackIds : progress[t] = NoProgress /\ pc[t] = "idle"

\* --------------------------------------- Downloader: metadata not found
\* What get_album_info, get_playlist_info or get_artist_info returns: None
\* (found is FALSE) or an info object with its track ids and, for an
\* artist, the info of each of its albums in turn.
NoInfo == [found |-> FALSE, albums |-> <<>>, tracks |-> <<>>]

\* The albums of an artist whose get_album_info results are `flags`, each
\* found album holding one track id not seen before, from `first` on.
RECURSIVE ArtistAlbums(_, _)
ArtistAlbums(flags, first) ==
    IF flags = <<>> THEN <<>>
    ELSE IF Head(flags)
         THEN <<[found |-> TRUE, albums |-> <<>>, tracks |-> <<first>>]>>
                  \o ArtistAlbums(Tail(flags), first + 1)
         ELSE <<NoInfo>> \o ArtistAlbums(Tail(flags), first)

AlbumFlags == UNION {[1..n -> BOOLEAN] : n \in 0..MaxAlbums}

\* The results a backend can give for the next requested item.
MediaInfos(kind, first) ==
    IF kind = "artist"
    THEN {NoInfo} \cup {[found |-> TRUE, albums |-> ArtistAlbums(flags, first),
                         tracks |-> <<>>] : flags \in AlbumFlags}
    ELSE {NoInfo, [found |-> TRUE, albums |-> <<>>, tracks |-> <<first>>]}

\* queue_album creating the job before it looks at the album info.
QueueAlbumInfoJobFirst(q, album_info, parent_job_id) ==
    LET created == IF parent_job_id = NoJob THEN CreateJob(q) ELSE q
        job_id == IF parent_job_id = NoJob THEN Len(q.jobs) + 1
                  ELSE parent_job_id
    IN  [q |-> AddTracks(created, job_id, album_info.tracks),
         job_id |-> IF album_info.found THEN job_id ELSE NoJob]

\* queue_album, lines 251-302, and queue_playlist, lines 325-378 (always
\* without a parent job): `return None, None` when the info is None, else
\* the job (the parent's when given) and one Track Task per track id.
QueueAlbumInfo(q, album_info, parent_job_id) ==
    IF ~album_info.found THEN [q |-> q, job_id |-> NoJob]
    ELSE LET created == IF parent_job_id = NoJob THEN CreateJob(q) ELSE q
             job_id == IF parent_job_id = NoJob THEN Len(q.jobs) + 1
                       ELSE parent_job_id
         IN  [q |-> AddTracks(created, job_id, album_info.tracks),
              job_id |-> job_id]

\* queue_artist, lines 435-447: queue_album for each album under the
\* artist's job; its result is only read for the tracks of the album.
RECURSIVE QueueArtistAlbums(_, _, _)
QueueArtistAlbums(q, albums, job_id) ==
    IF albums = <<>> THEN q
    ELSE QueueArtistAlbums(QueueAlbumInfo(q, Head(albums), job_id).q,
                           Tail(albums), job_id)

\* queue_artist, lines 398-466: `return None, None` when the info is None,
\* else one job for the albums and the standalone tracks.
QueueArtistInfo(q, artist_info) ==
    IF ~artist_info.found THEN [q |-> q, job_id |-> NoJob]
    ELSE LET job_id == Len(q.jobs) + 1
             albums == QueueArtistAlbums(CreateJob(q), artist_info.albums, job_id)
         IN  [q |-> AddTracks(albums, job_id, artist_info.tracks),
              job_id |-> job_id]

\* The track ids an info object leads to, in the order they are queued.
RECURSIVE InfoTracks(_)
InfoTracks(info) ==
    IF ~info.found THEN <<>>
    ELSE LET RECURSIVE OfAlbums(_)
             OfAlbums(albums) ==
                 IF albums = <<>> THEN <<>>
                 ELSE InfoTracks(Head(albums)) \o OfAlbums(Tail(albums))
         IN  OfAlbums(info.albums) \o info.tracks

\* _queue_media_item for one album, playlist or artist request: the
\* queue_* entry point with what the backend returns for it.
QueueMedia(kind, info) ==
    /\ phase = "populate"
    /\ Len(media_infos) < MaxJobs
    /\ Range(InfoTracks(info)) \subseteq TrackIds
    /\ media_infos' = Append(media_infos, [kind |-> kind, info |-> info])
    /\ LET queued == IF kind = "artist" THEN QueueArtistInfo(Queue, info)
                   ELSE QueueAlbumInfo(Queue, info, NoJob)
       IN  /\ Store(queued.q)
           /\ returned' = Append(returned, queued.job_id)
           /\ assets_fetched' =
                  IF dry_run \/ kind = "artist" \/ queued.job_id = NoJob
                  THEN assets_fetched
                  ELSE assets_fetched \cup {queued.job_id}
           /\ artist_jobs' =
                  IF kind = "artist" /\ queued.job_id # NoJob
                  THEN artist_jobs \cup {queued.job_id}
                  ELSE artist_jobs
    /\ main_artist' =
           [t \in TrackIds |->
               IF t \in Range(InfoTracks(info))
               THEN IF kind = "playlist" THEN NoArtist ELSE "ABBA"
               ELSE main_artist[t]]
    /\ UNCHANGED <<config, temp, loader, sink, lock, retry, cover, region, hooks, semaphore, phase, pc, attempt,
                   tg_cancelled, history, dry_run, ignore_existing_files,
                   converts, files, descriptor_requested, bytes_fetched,
                   skipped_existing, cover_fetched, transcoded, track_artists,
                   ignore_different_artists, filter_skipped,
                   media_to_download, third_party_modules, call>>

NextMetadata ==
    \/ \E kind \in {"album", "playlist", "artist"} :
           \E info \in MediaInfos(kind, Cardinality(Registered) + 1) :
               QueueMedia(kind, info)
    \/ StartProcessing

SpecMetadata == Init /\ [][NextMetadata]_vars

\* The requested items whose metadata fetch gave an info object.
FoundItems == {i \in DOMAIN media_infos : media_infos[i].info.found}

\* C24: a queue_album, queue_playlist or queue_artist call whose metadata
\* fetch yields nothing returns no job id, creates no Job and no Track Task
\* and raises nothing; the items after it, and the albums of an artist
\* after a missing album, are queued as if the missing one was not asked.
C24_NullMetadataSkipsItem ==
    media_infos # <<>>
        => /\ phase # "populate_raised"
           /\ Len(returned) = Len(media_infos)
           /\ Len(jobs) = Cardinality(FoundItems)
           /\ Registered =
                  UNION {Range(InfoTracks(media_infos[i].info)) :
                            i \in DOMAIN media_infos}
           /\ \A i \in DOMAIN media_infos :
                  IF i \in FoundItems
                  THEN /\ returned[i] =
                              Cardinality({k \in FoundItems : k <= i})
                       /\ jobs[returned[i]].track_ids =
                              InfoTracks(media_infos[i].info)
                       /\ \A t \in Range(InfoTracks(media_infos[i].info)) :
                              track_tasks[t] = returned[i]
                  ELSE returned[i] = NoJob

\* A missing album or playlist, then an artist whose first album is missing
\* and whose second album is queued under the only job.
C24_MissingItemThenArtistMissingAlbum ==
    /\ Len(media_infos) = 2
    /\ media_infos[1].kind \in {"album", "playlist"}
    /\ ~media_infos[1].info.found
    /\ media_infos[2].kind = "artist"
    /\ media_infos[2].info.found
    /\ Len(media_infos[2].info.albums) = 2
    /\ ~media_infos[2].info.albums[1].found
    /\ media_infos[2].info.albums[2].found
    /\ returned = <<NoJob, 1>>
    /\ Len(jobs) = 1
    /\ jobs[1].track_ids = <<1>>

\* ------------------------------------------- DownloadQueue: its methods
\* get_job_progress answering for an unknown id with the counts of the
\* job registered last.
GetJobProgressOfLast(q, job_id) ==
    LET j == IF job_id \in DOMAIN q.jobs THEN job_id ELSE Len(q.jobs) IN
        IF j = 0 THEN ZeroProgress
        ELSE [completed |-> Cardinality(q.jobs[j].completed_tracks),
              failed |-> Cardinality(q.jobs[j].failed_tracks),
              skipped |-> Cardinality(q.jobs[j].skipped_tracks),
              total |-> TotalTracks(q.jobs[j])]

\* get_job_progress(job_id), lines 461-478.
GetJobProgress(q, job_id) ==
    IF job_id \notin DOMAIN q.jobs THEN ZeroProgress
    ELSE [completed |-> Cardinality(q.jobs[job_id].completed_tracks),
          failed |-> Cardinality(q.jobs[job_id].failed_tracks),
          skipped |-> Cardinality(q.jobs[job_id].skipped_tracks),
          total |-> TotalTracks(q.jobs[job_id])]

\* clear forgetting the jobs and keeping the Track Tasks.
ClearJobsOnly(q) ==
    [q EXCEPT !.jobs = <<>>, !.finish_count = [j \in JobIds |-> 0]]

\* clear(), lines 496-500. A job created afterwards has an id never used
\* before: the callback history kept under the dropped ids goes with them.
Clear(q) ==
    [q EXCEPT !.jobs = <<>>, !.track_tasks = [t \in TrackIds |-> NoJob],
              !.finish_count = [j \in JobIds |-> 0]]

\* The read accessors, lines 311-357: get_job and get_track_task return
\* None (NoJob) for an id that is not registered.
GetJob(q, job_id) == IF job_id \in DOMAIN q.jobs THEN job_id ELSE NoJob
GetTrackTask(q, t) == q.track_tasks[t]
GetAllJobs(q) == q.jobs
GetAllTrackTasks(q) == {t \in TrackIds : q.track_tasks[t] # NoJob}
JobCount(q) == Len(q.jobs)
TrackCount(q) == Cardinality(GetAllTrackTasks(q))

\* The entries of all track_ids lists together.
RECURSIVE QueuedEntries(_)
QueuedEntries(js) ==
    IF js = <<>> THEN 0 ELSE Len(Head(js).track_ids) + QueuedEntries(Tail(js))

\* A caller of the queue's methods, one call at a time (each method takes
\* the queue's lock for its whole effect).
CallCreateJob ==
    /\ Len(jobs) < MaxJobs
    /\ Store(CreateJob(Queue))
    /\ call' = [NoCall EXCEPT !.op = "create_job"]
    /\ UNCHANGED <<config, temp, loader, sink, lock, retry, cover, artist_filter, region, files_state, hooks,
                   semaphore, phase, pc, attempt, tg_cancelled, history,
                   media_to_download, third_party_modules, media_infos,
                   returned>>

\* add_track(job_id, task) with any job id, registered or not.
CallAddTrack(job_id, t) ==
    /\ QueuedEntries(jobs) < MaxTrack
    /\ Store(AddTrack(Queue, job_id, t))
    /\ call' = [NoCall EXCEPT !.op = "add_track",
                              !.known = job_id \in DOMAIN jobs,
                              !.raised = job_id \notin DOMAIN jobs]
    /\ UNCHANGED <<config, temp, loader, sink, lock, retry, cover, artist_filter, region, files_state, hooks,
                   semaphore, phase, pc, attempt, tg_cancelled, history,
                   media_to_download, third_party_modules, media_infos,
                   returned>>

\* mark_track_complete(track_id, status) with any track id, as a pipeline
\* calls it: once for a Track Task.
CallMarkTrackComplete(t, st) ==
    /\ track_tasks[t] # NoJob => SetsHolding(t) = {}
    /\ Store(MarkTrackComplete(Queue, t, st))
    /\ call' = [NoCall EXCEPT !.op = "mark_track_complete",
                              !.known = track_tasks[t] # NoJob]
    /\ UNCHANGED <<config, temp, loader, sink, lock, retry, cover, artist_filter, region, files_state, hooks,
                   semaphore, phase, pc, attempt, tg_cancelled, history,
                   media_to_download, third_party_modules, media_infos,
                   returned>>

CallGetJobProgress(job_id) ==
    /\ call' = [NoCall EXCEPT !.op = "get_job_progress",
                              !.known = job_id \in DOMAIN jobs,
                              !.result = GetJobProgress(Queue, job_id)]
    /\ UNCHANGED <<config, temp, loader, sink, lock, retry, cover, artist_filter, region, files_state, hooks, queue,
                   semaphore, phase, pc, attempt, tg_cancelled, history,
                   media_to_download, third_party_modules, media_infos,
                   returned>>

CallClear ==
    /\ Store(Clear(Queue))
    /\ call' = [NoCall EXCEPT !.op = "clear"]
    /\ UNCHANGED <<config, temp, loader, sink, lock, retry, cover, artist_filter, region, files_state, hooks,
                   semaphore, phase, pc, attempt, tg_cancelled, history,
                   media_to_download, third_party_modules, media_infos,
                   returned>>

NextQueue ==
    \/ CallCreateJob
    \/ \E job_id \in JobIds, t \in TrackIds : CallAddTrack(job_id, t)
    \/ \E t \in TrackIds, st \in TerminalProgress : CallMarkTrackComplete(t, st)
    \/ \E job_id \in JobIds : CallGetJobProgress(job_id)
    \/ CallClear

\* DownloadQueue() used on its own: the registry methods read neither the
\* abort setting (its default is False) nor the size of the gate.
InitQueue == Init /\ ~abort /\ concurrent = 1

SpecQueue == InitQueue /\ [][NextQueue]_vars

\* C25: add_track with a job id that is not registered raises KeyError and
\* leaves the queue as it was: no Track Task registered, no track_ids of any
\* job changed, no progress task created.
C25_AddTrackUnknownJobRaises ==
    [][(call'.op = "add_track" /\ ~call'.known)
           => /\ call'.raised
              /\ UNCHANGED <<jobs, track_tasks, progress, finish_count>>]_vars

\* add_track raised for an unknown job id while a job with a track exists.
C25_RaisedBesideRegisteredTrack ==
    /\ call.op = "add_track"
    /\ call.raised
    /\ Len(jobs) = 1
    /\ jobs[1].track_ids # <<>>
    /\ \E t \in TrackIds : track_tasks[t] = NoJob /\ progress[t] = NoProgress

\* C26: add_track(j, task) appends task.track_id to the track_ids of job j
\* and sets the registry entry of that id; every other field of job j,
\* every other job, and the Track Task and the progress state of every
\* other track stay as they were.
C26_AddTrackChangesOnlyItsJobAndTrack ==
    [][(call'.op = "add_track" /\ call'.known)
           => \E j \in DOMAIN jobs, t \in TrackIds :
                  /\ jobs' = [jobs EXCEPT ![j].track_ids = Append(@, t)]
                  /\ track_tasks'[t] = j
                  /\ \A u \in TrackIds \ {t} :
                         /\ track_tasks'[u] = track_tasks[u]
                         /\ progress'[u] = progress[u]]_vars

\* A track id completed under the first job is added to the second one: the
\* first job keeps the id, its set and its status.
C26_AddedIdHeldByFinishedJob ==
    /\ call.op = "add_track"
    /\ call.known
    /\ Len(jobs) = 2
    /\ jobs[1].track_ids = <<1>>
    /\ jobs[1].completed_tracks = {1}
    /\ jobs[1].status = JobCompleted
    /\ jobs[2].track_ids = <<1>>
    /\ track_tasks[1] = 2

\* C27: right after clear() every read accessor reports an empty queue:
\* no jobs, no Track Tasks, both counts 0, nothing found under any id, and
\* get_results with nothing completed and nothing failed.
C27_ClearEmptiesEveryAccessor ==
    call.op = "clear"
        => /\ GetAllJobs(Queue) = <<>>
           /\ GetAllTrackTasks(Queue) = {}
           /\ JobCount(Queue) = 0
           /\ TrackCount(Queue) = 0
           /\ \A job_id \in JobIds : GetJob(Queue, job_id) = NoJob
           /\ \A t \in TrackIds : GetTrackTask(Queue, t) = NoJob
           /\ GetResults(Queue) = [completed |-> <<>>, failed |-> <<>>]

\* clear() has acted on a queue that held every track id: their progress
\* tasks, which clear() does not touch, are still there.
C27_ClearedAfterTracksAdded ==
    /\ call.op = "clear"
    /\ \A t \in TrackIds : progress[t] = PENDING

\* C28: get_job_progress for a job id that is not registered returns the
\* zeroed record without raising and changes nothing; mark_track_complete
\* for a track id that is not registered changes nothing and runs no
\* callback.
C28_UnknownIdsAreNoOps ==
    [][/\ (call'.op = "get_job_progress" /\ ~call'.known)
              => /\ call'.result = ZeroProgress
                 /\ ~call'.raised
                 /\ UNCHANGED <<queue, semaphore, phase, pc>>
       /\ (call'.op = "mark_track_complete" /\ ~call'.known)
              => UNCHANGED <<queue, semaphore, phase, pc>>]_vars

\* get_job_progress was asked for an unknown id while the only job is
\* finished with one track completed.
C28_UnknownJobBesideFinishedJob ==
    /\ call.op = "get_job_progress"
    /\ ~call.known
    /\ Len(jobs) = 1
    /\ jobs[1].completed_tracks # {}
    /\ finish_count[1] = 1

\* ------------------------------------------------- JobProgress snapshots
\* JobProgress.finished, lines 68-71.
Finished(p) == p.completed + p.failed + p.skipped

\* JobProgress.is_finished, lines 80-83.
SnapshotIsFinished(p) == Finished(p) >= p.total /\ p.total > 0

\* A progress ratio that counts the completed tracks only.
ProgressOfCompleted(p) ==
    IF p.total = 0 THEN [num |-> 0, den |-> 1]
    ELSE [num |-> p.completed, den |-> p.total]

\* JobProgress.progress, lines 73-78, and DownloadJob.progress, lines
\* 153-158: 0.0 when total is 0, else the true division finished / total,
\* kept as the fraction it is the value of.
Progress(p) ==
    IF p.total = 0 THEN [num |-> 0, den |-> 1]
    ELSE [num |-> Finished(p), den |-> p.total]

\* C29: the progress ratio of a job's snapshot is 0 when its total is 0,
\* is 1 when the job is finished, and is never below 0 nor above 1: the
\* finished count never exceeds the total. The snapshot of an id that is
\* not registered has ratio 0.
C29_ProgressRatioWithinUnitInterval ==
    /\ \A j \in DOMAIN jobs :
           LET p == GetJobProgress(Queue, j)
               ratio == Progress(p)
           IN  /\ p.total = TotalTracks(jobs[j])
               /\ Finished(p) = FinishedTracks(jobs[j])
               /\ Finished(p) <= p.total
               /\ ratio.den > 0
               /\ 0 <= ratio.num /\ ratio.num <= ratio.den
               /\ p.total = 0 => ratio.num = 0
               /\ SnapshotIsFinished(p) <=> IsFinished(jobs[j])
               /\ SnapshotIsFinished(p) => ratio.num = ratio.den
    /\ \A j \in JobIds \ DOMAIN jobs :
           Progress(GetJobProgress(Queue, j)).num = 0

\* A job without tracks beside a finished job of two tracks, one of them
\* failed.
C29_EmptyJobBesideFinishedWithFailure ==
    /\ Len(jobs) = 2
    /\ jobs[1].track_ids = <<>>
    /\ Len(jobs[2].track_ids) = 2
    /\ IsFinished(jobs[2])
    /\ jobs[2].failed_tracks # {}
    /\ jobs[2].completed_tracks # {}

\* ------------------------------------------------ process_queue: result
\* get_results, lines 488-492: the lists are built job after job, so an id
\* occurs in a list once for every job whose set holds it.
Occurrences(list, t) == Cardinality({j \in DOMAIN list : t \in list[j]})

\* The ids held in a set of some job.
InSomeCompleted == UNION {jobs[j].completed_tracks : j \in DOMAIN jobs}
InSomeFailed == UNION {jobs[j].failed_tracks : j \in DOMAIN jobs}
InSomeSkipped == UNION {jobs[j].skipped_tracks : j \in DOMAIN jobs}

\* C30: when process_queue has returned, its `completed` list holds exactly
\* the ids of the jobs' completed sets and its `failed` list exactly one
\* (id, reason) pair for each id of the jobs' failed sets; a track whose
\* pipeline failed is in `failed` and its progress event is FAILED; no id
\* is in both lists and a skipped track is in neither.
C30_ResultListsMatchJobSets ==
    phase = "returned"
        => LET r == GetResults(Queue) IN
               \A t \in TrackIds :
                   /\ Occurrences(r.completed, t) =
                          IF t \in InSomeCompleted THEN 1 ELSE 0
                   /\ Occurrences(r.failed, t) =
                          IF t \in InSomeFailed THEN 1 ELSE 0
                   /\ t \in exc_escaped
                          => /\ Occurrences(r.failed, t) = 1
                             /\ progress[t] = FAILED
                   /\ Occurrences(r.completed, t) = 0
                          \/ Occurrences(r.failed, t) = 0
                   /\ (t \in InSomeSkipped \/ progress[t] = SKIPPED)
                          => /\ Occurrences(r.completed, t) = 0
                             /\ Occurrences(r.failed, t) = 0

\* process_queue returned after one pipeline failed and another one ended
\* with a skipped track.
C30_ReturnedWithFailureAndSkip ==
    /\ phase = "returned"
    /\ \E t \in exc_escaped : t \in InSomeFailed
    /\ InSomeSkipped # {}

\* ------------------------------------------------ progress: event status
\* The place of a status on PENDING -> DOWNLOADING -> terminal.
StatusRank(st) ==
    CASE st = NoProgress -> 0
      [] st = PENDING -> 1
      [] st = DOWNLOADING -> 2
      [] st \in TerminalProgress -> 3

\* C31: the status of the events dispatched for a track only moves forward
\* along PENDING -> DOWNLOADING -> {COMPLETED, FAILED, SKIPPED}: after an
\* event with a terminal status no event with another status follows, and
\* the status never returns to PENDING. An event reaches the sink inside
\* the call that issues it, so the sink sees them in the order of issue.
C31_EventStatusOnlyMovesForward ==
    [][\A t \in TrackIds :
           /\ StatusRank(progress'[t]) >= StatusRank(progress[t])
           /\ progress[t] \in TerminalProgress => progress'[t] = progress[t]
           /\ progress[t] = DOWNLOADING => progress'[t] # PENDING]_vars

\* A track completed after a step of an earlier attempt had raised, beside
\* a skipped track.
C31_CompletedAfterRetryBesideSkipped ==
    /\ phase = "returned"
    /\ \E t \in exc_raised : progress[t] = COMPLETED
    /\ \E t \in Registered : progress[t] = SKIPPED

\* ------------------------------------------- Downloader: the cover cache
\* TrackInfo.album_id of the tracks of one album request.
AlbumId == 1

\* _download_cover, lines 1200-1203: the lookup under _cover_cache_lock, by
\* a pipeline inside _finalize_track.  The lock is released before the
\* download, so a pipeline between its own lookup and its write does not
\* keep another one out.
CoverLookup(t) ==
    /\ pc[t] = "fetch"
    /\ Resumes
    /\ cover_pc[t] = "idle"
    /\ cover_pc' = [cover_pc EXCEPT ![t] =
                       IF AlbumId \in cover_cache THEN "hit" ELSE "miss"]
    /\ UNCHANGED <<config, temp, loader, sink, lock, retry, request, artist_filter, region, files_state, hooks,
                   queue, semaphore, phase, pc, attempt, tg_cancelled, history,
                   cover_cache, cover_downloaded>>

\* _download_cover, lines 1205-1224: the download into a temporary path,
\* then the write into the cache under the lock.
CoverDownload(t) ==
    /\ pc[t] = "fetch"
    /\ Resumes
    /\ cover_pc[t] = "miss"
    /\ cover_downloaded' = cover_downloaded \cup {t}
    /\ cover_cache' = cover_cache \cup {AlbumId}
    /\ cover_pc' = [cover_pc EXCEPT ![t] = "stored"]
    /\ tracked_paths' = tracked_paths \cup {t}
    /\ temp_files' = temp_files \cup {t}
    /\ UNCHANGED <<config, closed_modules, cleaned, loader, sink, lock, retry, request, artist_filter, region, files_state, hooks,
                   queue, semaphore, phase, pc, attempt, tg_cancelled, history>>

\* _finalize_track after the cover, then the final report of
\* _download_track_task.
FinalizeWithCover(t) ==
    /\ pc[t] = "fetch"
    /\ Resumes
    /\ cover_pc[t] \in {"hit", "stored"}
    /\ Finish(Queue, t, COMPLETED)
    /\ UNCHANGED <<config, temp, loader, sink, lock, retry, request, artist_filter, region, files_state,
                   extension_run, phase, tg_cancelled, exc_raised, cover>>

NextCover ==
    \/ \E tracks \in AlbumTrackLists : QueueAlbumAssets("ABBA", tracks)
    \/ StartProcessing
    \/ \E t \in TrackIds : Acquire(t)
    \/ \E t \in TrackIds : GetTrackInfo(t)
    \/ \E t \in TrackIds : CoverLookup(t)
    \/ \E t \in TrackIds : CoverDownload(t)
    \/ \E t \in TrackIds : FinalizeWithCover(t)
    \/ TaskGroupCancel
    \/ \E t \in TrackIds : Cancelled(t)
    \/ ProcessQueueExit

SpecCover == Init /\ [][NextCover]_vars

\* C32: the cover of an album id is fetched at most once in a run: the
\* first pipeline to ask performs the fetch, every other pipeline of the
\* album finds the cached path, however the cover steps interleave.
C32_CoverFetchedOncePerAlbum ==
    Cardinality(cover_downloaded) <= 1

\* ------------------------------------------- Downloader: the retry policy
NoException == "none"

\* retry_if_exception_type((aiohttp.ClientError, TimeoutError, OSError)).
TransientExceptions == {"ClientError", "TimeoutError", "OSError"}

\* What a step of _download_track raises besides: InvalidTrackError (no
\* track info, track_info.error, a failed file download), ConversionError.
Exceptions == TransientExceptions \cup {"InvalidTrackError", "ConversionError"}

\* A retry predicate that accepts every exception.
RetryIfException(e) == TRUE

\* tenacity, retry=retry_if_exception_type(...).
RetryIfExceptionType(e) == e \in TransientExceptions

\* tenacity, reraise=True: the last exception itself, no RetryError.
Reraise(e) == e

\* One attempt of _download_track inside _download_track_task: an error of
\* get_track_info, or a step after the DOWNLOADING report that raises or
\* returns; tenacity decides between the next attempt and the re-raise,
\* and _download_track_task reports the end of the track.
DownloadTrack(t) ==
    /\ pc[t] = "info"
    /\ Resumes
    /\ \E stage \in {"get_track_info", "reported"}, e \in Exceptions \cup {NoException} :
         /\ stage = "get_track_info" => e \notin {NoException, "ConversionError"}
         /\ LET q == IF stage = "reported"
                     THEN UpdateProgress(Queue, t, DOWNLOADING) ELSE Queue
            IN /\ last_exception' = [last_exception EXCEPT ![t] = e]
               /\ IF e = NoException
                  THEN /\ Finish(q, t, COMPLETED)
                       /\ UNCHANGED <<exc_raised, caught>>
                  ELSE /\ exc_raised' = exc_raised \cup {t}
                       /\ IF RetryIfExceptionType(e)
                          THEN /\ TransientError(q, t)
                               /\ caught' = IF Retries(t) THEN caught
                                            ELSE [caught EXCEPT ![t] = Reraise(e)]
                          ELSE /\ Fail(q, t)
                               /\ caught' = [caught EXCEPT ![t] = e]
    /\ UNCHANGED <<config, temp, loader, sink, lock, cover, request, artist_filter, region, files_state,
                   extension_run, phase, tg_cancelled>>

\* One album request, then the processing phase.
NextRetry ==
    \/ \E tracks \in AlbumTrackLists : QueueAlbumAssets("ABBA", tracks)
    \/ StartProcessing
    \/ \E t \in TrackIds : Acquire(t)
    \/ \E t \in TrackIds : DownloadTrack(t)
    \/ TaskGroupCancel
    \/ \E t \in TrackIds : Cancelled(t)
    \/ ProcessQueueExit

SpecRetry == Init /\ [][NextRetry]_vars

\* C33: _download_track is attempted at most 3 times for a Track Task; a
\* further attempt follows a transient error only (connection error,
\* timeout, OS-level I/O error), never an invalid-track or a conversion
\* error, and leaves the track unmarked; when the attempts are used up the
\* last error is the one that is caught; a track is marked terminal once,
\* in one of the three sets, and the mark is never changed.
C33_AtMostThreeAttemptsOneMark ==
    /\ [](\A t \in TrackIds :
            /\ attempt[t] <= MaxAttempts
            /\ caught[t] # NoException =>
                   /\ caught[t] = last_exception[t]
                   /\ progress[t] = FAILED
            /\ t \in Registered => Cardinality(SetsHolding(t)) <= 1
            /\ track_tasks[t] # NoJob => finish_count[track_tasks[t]] <= 1)
    /\ [][\A t \in TrackIds :
            /\ (attempt[t] >= 1 /\ attempt'[t] = attempt[t] + 1) =>
                   /\ last_exception'[t] \in TransientExceptions
                   /\ SetsHolding(t)' = {}
                   /\ caught'[t] = NoException
            /\ (t \in Registered /\ SetsHolding(t) # {}) =>
                   SetsHolding(t)' = SetsHolding(t)]_vars

C33_FailedAfterThirdTransientError ==
    \E t \in Registered :
        /\ pc[t] \in Ended
        /\ caught[t] \in TransientExceptions
        /\ SetsHolding(t) = {FAILED}
        /\ \E u \in Registered : last_exception[u] = "ConversionError" /\ SetsHolding(u) = {FAILED}

\* ------------------------------------------- DownloadQueue: the job lock
\* anyio.Lock not held.
NoHolder == 0

\* update_progress(track_id, status=DOWNLOADING) of _download_track: the
\* sink, then the PENDING -> DOWNLOADING flip under the lock.
ReportDownloading(t) ==
    /\ pc[t] = "info"
    /\ Resumes
    /\ job_lock = NoHolder
    /\ Store(UpdateProgress(Queue, t, DOWNLOADING))
    /\ pc' = [pc EXCEPT ![t] = "fetch"]
    /\ UNCHANGED <<config, temp, loader, sink, lock, retry, cover, request, artist_filter, region,
                   files_state, hooks, semaphore, phase, attempt, tg_cancelled,
                   history>>

\* _download_track_task, lines 512 and 532: update_progress with the final
\* status, the sink first, then the locked section.
ReportFinal(t, st) ==
    /\ pc[t] = "fetch"
    /\ Resumes
    /\ lock_pc[t] = "idle"
    /\ job_lock = NoHolder
    /\ Store(UpdateProgress(Queue, t, st))
    /\ lock_pc' = [lock_pc EXCEPT ![t] = "mark"]
    /\ UNCHANGED <<config, temp, loader, sink, job_lock, retry, cover, request, artist_filter, region,
                   files_state, hooks, semaphore, phase, pc, attempt,
                   tg_cancelled, history>>

\* mark_track_complete, lines 380-405: the lock is taken, the id is added to
\* its set, and when the job is finished the status is set and
\* `await self._on_job_complete(job)` starts inside the `async with`.
MarkLocked(t) ==
    /\ pc[t] = "fetch"
    /\ lock_pc[t] = "mark"
    /\ job_lock = NoHolder
    /\ LET marked == MarkTrackComplete(Queue, t, progress[t])
       IN /\ Store(marked)
          /\ IF marked.finish_count # finish_count
             THEN /\ job_lock' = t
                  /\ lock_pc' = [lock_pc EXCEPT ![t] = "callback"]
             ELSE /\ job_lock' = NoHolder
                  /\ lock_pc' = [lock_pc EXCEPT ![t] = "marked"]
    /\ UNCHANGED <<config, temp, loader, sink, retry, cover, request, artist_filter, region,
                   files_state, hooks, semaphore, phase, pc, attempt,
                   tg_cancelled, history>>

\* The completion callback returns and mark_track_complete leaves the
\* `async with self._job_lock`.
OnJobCompleteReturns(t) ==
    /\ lock_pc[t] = "callback"
    /\ job_lock' = NoHolder
    /\ lock_pc' = [lock_pc EXCEPT ![t] = "marked"]
    /\ UNCHANGED <<config, temp, loader, sink, retry, cover, request, artist_filter, region,
                   files_state, hooks, queue, semaphore, phase, pc, attempt,
                   tg_cancelled, history>>

\* _download_track_task, lines 522-529 and the exit of `async with
\* self._queue.semaphore`: the track hook unless the track failed.
ReleaseAfterMark(t) ==
    /\ lock_pc[t] = "marked"
    /\ lock_pc' = [lock_pc EXCEPT ![t] = "idle"]
    /\ notified' = [notified EXCEPT ![t] =
                       IF progress[t] = FAILED THEN @
                       ELSE NotifyExtensionsTrackComplete(extensions).invoked]
    /\ semaphore' = semaphore + 1
    /\ pc' = [pc EXCEPT ![t] = "done"]
    /\ attempt' = [attempt EXCEPT ![t] = 0]
    /\ UNCHANGED <<config, temp, loader, sink, job_lock, retry, cover, request, artist_filter, region,
                   files_state, extension_run, queue, phase, tg_cancelled,
                   history>>

\* One album request, abort_download_when_single_failed off.
InitLock == Init /\ ~abort

NextLock ==
    \/ \E tracks \in AlbumTrackLists : QueueAlbumAssets("ABBA", tracks)
    \/ StartProcessing
    \/ \E t \in TrackIds : Acquire(t)
    \/ \E t \in TrackIds : ReportDownloading(t)
    \/ \E t \in TrackIds, st \in TerminalProgress : ReportFinal(t, st)
    \/ \E t \in TrackIds : MarkLocked(t)
    \/ \E t \in TrackIds : OnJobCompleteReturns(t)
    \/ \E t \in TrackIds : ReleaseAfterMark(t)
    \/ ProcessQueueExit

SpecLock == InitLock /\ [][NextLock]_vars

\* C34: the registry lock is held around the map and set mutation only,
\* never while a call of an external collaborator is awaited: while the
\* job-completion callback awaited by mark_track_complete runs, the lock
\* is free.
C34_LockFreeWhileCallbackAwaited ==
    \A t \in TrackIds : lock_pc[t] = "callback" => job_lock = NoHolder

\* ------------------------------------------------ DownloadJob: no tracks
\* C35: a job with no tracks is never finished: is_finished is false, the
\* status stays PENDING and the completion callback is not invoked for it.
C35_EmptyJobNeverFinished ==
    \A j \in DOMAIN jobs :
        TotalTracks(jobs[j]) = 0 =>
            /\ ~IsFinished(jobs[j])
            /\ jobs[j].status = JobPending
            /\ finish_count[j] = 0

C35_EmptyJobBesideFinishedJob ==
    /\ phase = "returned"
    /\ \E j \in DOMAIN jobs : TotalTracks(jobs[j]) = 0
    /\ \E j \in DOMAIN jobs : TotalTracks(jobs[j]) > 0 /\ finish_count[j] = 1

\* ------------------------------------------------ progress: the throttle
THROTTLE_BYTES == 102400
THROTTLE_PERCENT == 1

\* None for an integer argument, a missing _last_reported entry.
NoValue == -1

PERCENT == "percent"
BYTES == "bytes"
NoMode == "none"

\* Progress values around the multiples of the byte throttle.
Currents ==
    {0, 1, THROTTLE_BYTES - 1} \cup {k * THROTTLE_BYTES : k \in 1..MaxChunks}

Totals == {0, MaxChunks * THROTTLE_BYTES}

\* The status, name, mode and force arguments of a call of update; name is
\* whether a name is supplied.
UpdateKeys ==
    [status : {NoProgress, DOWNLOADING} \cup TerminalProgress, name : BOOLEAN,
     mode : {NoMode, PERCENT, BYTES}, force : BOOLEAN]

\* ProgressEvent(task_id=task_id): the defaults.
NewEvent ==
    [present |-> TRUE, status |-> PENDING, current |-> 0, total |-> 0,
     mode |-> PERCENT]

\* No entry in _tasks.
NoEvent == [NewEvent EXCEPT !.present = FALSE]

NoUpdate ==
    [op |-> "none", force |-> FALSE, status |-> NoProgress, name |-> FALSE,
     mode |-> NoMode, dispatched |-> FALSE, sunk |-> NoValue]

\* _last_reported.get(task_id, 0).
LastReported == IF last_reported = NoValue THEN 0 ELSE last_reported

\* _build_event_updates and msgspec.structs.replace: the arguments that are
\* not None replace the event's fields.
BuildEventUpdates(event, status, current, total, mode) ==
    [event EXCEPT !.status = IF status = NoProgress THEN @ ELSE status,
                  !.current = IF current = NoValue THEN @ ELSE current,
                  !.total = IF total = NoValue THEN @ ELSE total,
                  !.mode = IF mode = NoMode THEN @ ELSE mode]

Throttle(event) == IF event.mode = BYTES THEN THROTTLE_BYTES ELSE THROTTLE_PERCENT

\* A throttle that lets a change through only when it exceeds the threshold.
ShouldDispatchEventStrict(event, last, force, status, name, mode) ==
    \/ force
    \/ status # NoProgress
    \/ name
    \/ mode # NoMode
    \/ event.current - last > Throttle(event)
    \/ (event.total > 0 /\ event.current >= event.total)

\* _should_dispatch_event.
ShouldDispatchEvent(event, last, force, status, name, mode) ==
    \/ force
    \/ status # NoProgress
    \/ name
    \/ mode # NoMode
    \/ event.current - last >= Throttle(event)
    \/ (event.total > 0 /\ event.current >= event.total)

\* update(task_id, status, name, current, total, mode, force); name is
\* whether a name is supplied.
Update(status, name, current, total, mode, force) ==
    LET known == tasks.present
        last == IF known THEN LastReported ELSE 0
        event == BuildEventUpdates(IF known THEN tasks ELSE NewEvent,
                                   status, current, total, mode)
        dispatch == ShouldDispatchEvent(event, last, force, status, name, mode)
    IN /\ tasks' = event
       /\ last_reported' = IF dispatch THEN event.current
                           ELSE IF known THEN last_reported ELSE 0
       /\ update_call' = [op |-> "update", force |-> force, status |-> status,
                          name |-> name, mode |-> mode,
                          dispatched |-> dispatch,
                          sunk |-> IF dispatch THEN event.current ELSE NoValue]

\* create_task: the PENDING event, always dispatched.
ProgressCreateTask ==
    /\ tasks' = NewEvent
    /\ last_reported' = 0
    /\ update_call' = [NoUpdate EXCEPT !.op = "create_task", !.dispatched = TRUE,
                                       !.sunk = 0]
    /\ UNCHANGED <<config, temp, loader, lock, retry, cover, request, artist_filter, region,
                   files_state, hooks, queue, semaphore, phase, pc, attempt,
                   tg_cancelled, history>>

ProgressUpdate(status, name, current, total, mode, force) ==
    /\ Update(status, name, current, total, mode, force)
    /\ UNCHANGED <<config, temp, loader, lock, retry, cover, request, artist_filter, region,
                   files_state, hooks, queue, semaphore, phase, pc, attempt,
                   tg_cancelled, history>>

\* advance(task_id, amount, total).
ProgressAdvance(amount, total) ==
    /\ tasks.current + amount \in Currents
    /\ Update(NoProgress, FALSE,
              (IF tasks.present THEN tasks.current ELSE 0) + amount,
              IF total > 0 THEN total ELSE NoValue, NoMode, FALSE)
    /\ UNCHANGED <<config, temp, loader, lock, retry, cover, request, artist_filter, region,
                   files_state, hooks, queue, semaphore, phase, pc, attempt,
                   tg_cancelled, history>>

\* reset(task_id).
ProgressReset ==
    /\ last_reported' = 0
    /\ tasks' = IF tasks.present THEN [tasks EXCEPT !.current = 0] ELSE tasks
    /\ update_call' = [NoUpdate EXCEPT !.op = "reset"]
    /\ UNCHANGED <<config, temp, loader, lock, retry, cover, request, artist_filter, region,
                   files_state, hooks, queue, semaphore, phase, pc, attempt,
                   tg_cancelled, history>>

\* remove_task(task_id).
ProgressRemoveTask ==
    /\ tasks' = NoEvent
    /\ last_reported' = NoValue
    /\ update_call' = [NoUpdate EXCEPT !.op = "remove_task"]
    /\ UNCHANGED <<config, temp, loader, lock, retry, cover, request, artist_filter, region,
                   files_state, hooks, queue, semaphore, phase, pc, attempt,
                   tg_cancelled, history>>

NextProgress ==
    \/ ProgressCreateTask
    \/ \E key \in UpdateKeys, current \in Currents \cup {NoValue},
          total \in Totals \cup {NoValue} :
         ProgressUpdate(key.status, key.name, current, total, key.mode, key.force)
    \/ \E amount \in {1, THROTTLE_BYTES - 1, THROTTLE_BYTES}, total \in Totals :
         ProgressAdvance(amount, total)
    \/ ProgressReset
    \/ ProgressRemoveTask

InitProgress == Init /\ ~abort /\ concurrent = 1

SpecProgress == InitProgress /\ [][NextProgress]_vars

\* C36: update dispatches the event exactly when force is set, or a status,
\* a name or a mode is supplied, or current - last_reported reaches the
\* threshold (1 in percent mode, 102400 in bytes mode), or total > 0 and
\* current >= total; an update with a terminal status is dispatched; after
\* a dispatch last_reported is the dispatched current value.
C36_DispatchIffThrottlePassed ==
    [][update_call'.op = "update" =>
        /\ update_call'.dispatched <=>
               \/ update_call'.force
               \/ update_call'.status # NoProgress
               \/ update_call'.name
               \/ update_call'.mode # NoMode
               \/ tasks'.current - LastReported >=
                      (IF tasks'.mode = BYTES THEN 102400 ELSE 1)
               \/ (tasks'.total > 0 /\ tasks'.current >= tasks'.total)
        /\ update_call'.status \in TerminalProgress => update_call'.dispatched
        /\ update_call'.dispatched =>
               /\ last_reported' = tasks'.current
               /\ update_call'.sunk = tasks'.current
        /\ ~update_call'.dispatched => last_reported' = LastReported]_vars

C36_BytesUpdateAtThresholdDispatched ==
    /\ update_call.op = "update"
    /\ update_call.dispatched
    /\ ~update_call.force
    /\ update_call.status = NoProgress
    /\ ~update_call.name
    /\ update_call.mode = NoMode
    /\ tasks.mode = BYTES
    /\ tasks.total = 0
    /\ tasks.current = MaxChunks * THROTTLE_BYTES
    /\ last_reported = tasks.current

\* --------------------------------------- extensions: job hook, track hook
\* A _run_extensions task created by the completion callback starts when
\* the pipeline that created it next suspends, which is after the callback
\* has returned.
RunExtensionsTask(j) ==
    /\ \A t \in TrackIds : lock_pc[t] # "callback"
    /\ RunExtensions(j)

\* One album request with registered extensions; each pipeline reports,
\* marks and runs the track hook as separate awaits, beside the extension
\* tasks of haberlea_core_download.
NextHooks ==
    \/ \E exts \in ExtensionLists : RegisterExtensions(exts)
    \/ \E tracks \in AlbumTrackLists : QueueAlbumAssets("ABBA", tracks)
    \/ StartProcessing
    \/ \E t \in TrackIds : Acquire(t)
    \/ \E t \in TrackIds : ReportDownloading(t)
    \/ \E t \in TrackIds, st \in TerminalProgress : ReportFinal(t, st)
    \/ \E t \in TrackIds : MarkLocked(t)
    \/ \E t \in TrackIds : OnJobCompleteReturns(t)
    \/ \E t \in TrackIds : ReleaseAfterMark(t)
    \/ ProcessQueueExit
    \/ \E j \in JobIds : RunExtensionsTask(j)
    \/ TaskGroupExit
    \/ RunExtensionsFinalize

SpecHooks == InitLock /\ [][NextHooks]_vars

\* C37: for every job, the on_job_complete hook starts only after the
\* on_track_complete hook of each of its tracks, the last one to finish
\* included, has returned; a FAILED track has no track hook.
C37_JobHookAfterEveryTrackHook ==
    \A j \in DOMAIN jobs :
        \A t \in TrackIdSet(jobs[j]) :
            /\ (ext_invoked[j] # {} /\ progress[t] \in {COMPLETED, SKIPPED})
                   => notified[t] # {}
            /\ progress[t] = FAILED => notified[t] = {}

\* ------------------------------------------------ Haberlea: load_module
AccountIndexes == 0..(MaxAccounts - 1)

\* The session's module cache and login history, as load_module works on
\* them.
Loader ==
    [loaded_modules |-> loaded_modules, authenticated |-> authenticated,
     tried |-> <<>>,
     raised |-> FALSE, index |-> NoAccount]

\* load_module(module, account_index), lines 322-342: the cached instance,
\* or a new instance stored under the cache key and then authenticated;
\* an exception of the login leaves load_module.
LoadModule(l, i) ==
    IF i \in l.loaded_modules
    THEN [l EXCEPT !.tried = Append(@, i), !.raised = FALSE, !.index = i]
    ELSE [l EXCEPT !.loaded_modules = @ \cup {i},
                   !.authenticated = IF i \in login_fails THEN @ ELSE @ \cup {i},
                   !.tried = Append(@, i),
                   !.raised = i \in login_fails,
                   !.index = IF i \in login_fails THEN NoAccount ELSE i]

\* load_module_with_fallback, lines 902-913: `for idx in range(account_count)`
\* from idx on, skipping the preferred account.
RECURSIVE TryOtherAccounts(_, _, _)
TryOtherAccounts(l, idx, preferred) ==
    IF idx >= module_accounts THEN [l EXCEPT !.raised = TRUE, !.index = NoAccount]
    ELSE IF idx = preferred THEN TryOtherAccounts(l, idx + 1, preferred)
    ELSE LET loaded == LoadModule(l, idx)
         IN IF loaded.raised THEN TryOtherAccounts(loaded, idx + 1, preferred)
            ELSE loaded

\* load_module_with_fallback(module, preferred_account_index).
LoadModuleWithFallback(l, preferred) ==
    IF module_accounts = 0 THEN LoadModule(l, 0)
    ELSE LET loaded == LoadModule(l, preferred)
         IN IF loaded.raised THEN TryOtherAccounts(loaded, 0, preferred)
            ELSE loaded

\* settings.modules[module] as the user edits it between two calls: the
\* accounts, and which of them the service refuses to log in.
ConfigureModule(count, fails) ==
    /\ fails \subseteq 0..(count - 1)
    /\ <<count, fails>> # <<module_accounts, login_fails>>
    /\ module_accounts' = count
    /\ login_fails' = fails
    /\ load_call' = [load_call EXCEPT !.op = "configured", !.tried = <<>>,
                                      !.raised = FALSE, !.index = NoAccount]
    /\ UNCHANGED <<config, temp, sink, lock, retry, cover, request, artist_filter,
                   region, files_state, hooks, queue, semaphore, phase, pc,
                   attempt, tg_cancelled, history, loaded_modules, authenticated>>

CallLoadModule(i) ==
    /\ i < Max(module_accounts, 1)
    /\ LET l == LoadModule(Loader, i)
       IN /\ loaded_modules' = l.loaded_modules
          /\ authenticated' = l.authenticated
          /\ load_call' = [op |-> "load_module", account |-> i,
                           raised |-> l.raised, index |-> l.index,
                           tried |-> l.tried]
    /\ UNCHANGED <<config, temp, sink, lock, retry, cover, request, artist_filter,
                   region, files_state, hooks, queue, semaphore, phase, pc,
                   attempt, tg_cancelled, history, module_accounts, login_fails>>

CallLoadModuleWithFallback(preferred) ==
    /\ preferred < Max(module_accounts, 1)
    /\ LET l == LoadModuleWithFallback(Loader, preferred)
       IN /\ loaded_modules' = l.loaded_modules
          /\ authenticated' = l.authenticated
          /\ load_call' = [op |-> "load_module_with_fallback",
                           account |-> preferred, raised |-> l.raised,
                           index |-> l.index, tried |-> l.tried]
    /\ UNCHANGED <<config, temp, sink, lock, retry, cover, request, artist_filter,
                   region, files_state, hooks, queue, semaphore, phase, pc,
                   attempt, tg_cancelled, history, module_accounts, login_fails>>

NextLoader ==
    \/ \E count \in 0..MaxAccounts, fails \in SUBSET AccountIndexes :
         ConfigureModule(count, fails)
    \/ \E i \in AccountIndexes : CallLoadModule(i)
    \/ \E preferred \in AccountIndexes : CallLoadModuleWithFallback(preferred)

SpecLoader == InitProgress /\ [][NextLoader]_vars

\* C38: load_module caches and returns an instance only when the
\* authentication succeeded: after a load_module that raised during login
\* the cache holds no instance for that module and account, so a later load
\* authenticates again; load_module_with_fallback tries the preferred
\* account first, then the others in increasing order, each once, and
\* raises only if all of them fail.
C38_CacheHoldsAuthenticatedOnly ==
    /\ loaded_modules \subseteq authenticated
    /\ (load_call.op = "load_module" /\ load_call.raised)
           => load_call.account \notin loaded_modules
    /\ (load_call.op = "load_module_with_fallback" /\ module_accounts > 0) =>
           /\ load_call.tried[1] = load_call.account
           /\ \A k \in 2..Len(load_call.tried) :
                  /\ load_call.tried[k] # load_call.account
                  /\ k > 2 => load_call.tried[k - 1] < load_call.tried[k]
           /\ load_call.raised <=>
                  0..(module_accounts - 1) \subseteq login_fails \ authenticated

\* ------------------------------- haberlea_core_download: the finally clause
\* _queue_module_items for the one album request of a run: load_module,
\* which stores the instance and may raise, then queue_album.
QueueModuleItems(tracks, load_raises) ==
    /\ phase = "populate"
    /\ jobs = <<>>
    /\ loaded_modules = {}
    /\ loaded_modules' = {DefaultAccountIndex}
    /\ IF load_raises
       THEN /\ phase' = "populate_raised"
            /\ core' = "raised"
            /\ UNCHANGED <<queue, authenticated>>
       ELSE /\ authenticated' = {DefaultAccountIndex}
            /\ Store(AddTracks(CreateJob(Queue), 1, tracks))
            /\ UNCHANGED <<phase, core>>
    /\ UNCHANGED <<config, temp, module_accounts, login_fails, load_call, sink,
                   lock, retry, cover, request, artist_filter, region,
                   files_state, extensions, ext_done, ext_invoked, finalized,
                   result, notified, semaphore, pc, attempt, tg_cancelled,
                   history>>

\* _cleanup_modules in the finally clause of haberlea_core_download: every
\* instance of session.loaded_modules is closed.  The Downloader is made
\* by a plain call, it is not entered as a context manager, so its
\* __aexit__, the one caller of TempFileManager.cleanup, does not run.
CleanupModules ==
    /\ core \in {"returned", "raised"}
    /\ ~cleaned
    /\ closed_modules' = loaded_modules
    /\ cleaned' = TRUE
    /\ UNCHANGED <<config, tracked_paths, temp_files, loader, sink, lock, retry,
                   cover, request, artist_filter, region, files_state, hooks,
                   queue, semaphore, phase, pc, attempt, tg_cancelled, history>>

NextCleanup ==
    \/ \E tracks \in AlbumTrackLists, load_raises \in BOOLEAN :
         QueueModuleItems(tracks, load_raises)
    \/ StartProcessing
    \/ \E t \in TrackIds : Acquire(t)
    \/ \E t \in TrackIds : GetTrackInfo(t)
    \/ \E t \in TrackIds : CoverLookup(t)
    \/ \E t \in TrackIds : CoverDownload(t)
    \/ \E t \in TrackIds : FinalizeWithCover(t)
    \/ TaskGroupCancel
    \/ \E t \in TrackIds : Cancelled(t)
    \/ ProcessQueueExit
    \/ \E j \in JobIds : RunExtensions(j)
    \/ TaskGroupExit
    \/ RunExtensionsFinalize
    \/ CleanupModules

SpecCleanup == Init /\ [][NextCleanup]_vars

\* C39: when haberlea_core_download has returned or raised, every temporary
\* path tracked by the Downloader's TempFileManager has been deleted and
\* untracked, and every loaded backend module has been closed, on every
\* exit path after the population started.
C39_TempPathsDeletedModulesClosed ==
    cleaned =>
        /\ tracked_paths = {}
        /\ temp_files = {}
        /\ closed_modules = loaded_modules

====
